---- MODULE Spec2Model ----
(***************************************************************************)
(* Model of the HR assistant: the bounded tool-calling agent loop          *)
(* (LLMService.agent_execute), the /query route that drives it, the        *)
(* retrieval gateway (VectorStoreService.search and the RetrievalPlugin    *)
(* tools) and the embedding stage of the ingestion script.                 *)
(***************************************************************************)
EXTENDS Integers, Sequences, FiniteSets, TLC

VARIABLES
    max_iterations,   \* agent_execute: the max_iterations argument
    agent,            \* agent_execute: locals, position and returned dict
    responses,        \* the chat backend's replies received so far, in order
    settings,         \* which credentials the Settings object carries
    svc,              \* the fields of the process-wide service singletons
    search_out,       \* what the last VectorStoreService.search call did
    tool_out,         \* what the last RetrievalPlugin tool call returned
    emb,              \* a run of the script's generate_embeddings_batch
    ing,              \* a run of the script's ingest_documents
    split,            \* a call of TextSplitter.split_text
    clean,            \* a call of TextCleaner.clean
    reqs,             \* the POST /query requests: position, locals, response
    query_status_store,  \* routes.query_status_store: query_id -> status dict
    conversations,    \* MemoryService._conversations: session_id -> messages
    health,           \* GET /health: the calls made and the last response
    status_calls,     \* GET and DELETE /status/{query_id}: calls and last response
    memory_calls      \* direct reads of MemoryService: calls and last result

agentVars == <<max_iterations, agent, responses>>

searchVars == <<settings, svc, search_out, tool_out>>

ingestVars == <<emb, ing, split, clean>>

queryVars ==
    <<reqs, query_status_store, conversations, health, status_calls, memory_calls>>

vars == <<agentVars, searchVars, ingestVars, queryVars>>

(***************************************************************************)
(* Python values                                                           *)
(***************************************************************************)
\* Python's None, kept apart from the string str(None) = "None".
None == "<None>"

\* bool(v) for an optional string: None and "" are falsy.
Truthy(v) == v # None /\ v # ""

\* str(v) for an optional string.
Str(v) == IF v = None THEN "None" ELSE v

Min(a, b) == IF a <= b THEN a ELSE b

(***************************************************************************)
(* Bounds of the model                                                     *)
(***************************************************************************)
\* Largest max_iterations explored for a direct agent_execute call.
MaxIterations == 3

\* Most matches the vector index returns for one query.
MaxMatches == 2

\* Longest chunk list and largest batch_size of a direct call of
\* generate_embeddings_batch.
MaxChunks == 4
MaxBatchSize == 3

\* Most documents of an ingested directory and most chunks of a document.
MaxDocs == 2
MaxChunksPerDoc == 2

\* The batch_size default of generate_embeddings_batch (50), which
\* ingest_documents uses, scaled down so that a run has several batches.
DefaultBatchSize == 2

\* settings.pinecone_dimension, scaled down; the embedding model returns
\* vectors of 1 to PineconeDimension + 1 components.
PineconeDimension == 2

\* Longest text given to the splitter, largest chunk_size and chunk_overlap.
MaxTextLen == 6
MaxChunkSize == 4
MaxChunkOverlap == 3

\* The input texts of TextCleaner.clean have at most MaxFragments pieces.
MaxFragments == 6

\* Number of POST /query requests, which may overlap.
NumRequests == 2

\* The max_iterations the /query route passes to agent_execute (5), scaled
\* down.
QueryMaxIterations == 2

(***************************************************************************)
(* The chat backend's replies                                              *)
(***************************************************************************)
\* The tools the system prompt of POST /query lists.
PromptTools ==
    {"search_policy_documents", "get_document_details", "search_related_topics",
     "list_available_policies"}

\* The kernel functions of the plugins _load_hr_plugins adds to the kernel;
\* FunctionChoiceBehavior.Auto with no excluded plugin offers them all.
PluginFunctions ==
    [hr_policy |-> {"answer_policy_question"},
     employee_services |-> {"check_leave_balance", "get_payroll_info"},
     recruitment |-> {"get_job_openings", "check_application_status"},
     retrieval |-> {"retrieve_documents", "retrieve_and_answer"} \cup PromptTools,
     summarization |-> {"summarize_document", "summarize_for_audience", "extract_key_points"},
     company |-> {"get_company_info", "get_department_info", "get_office_locations"}]

KernelFunctions == UNION {PluginFunctions[p] : p \in DOMAIN PluginFunctions}

\* The functions the chat model asks for here: two of the prompt's tools,
\* another one of the retrieval plugin and one of another plugin.
ToolNames ==
    KernelFunctions \cap {"search_policy_documents", "get_document_details",
                          "retrieve_documents", "check_leave_balance"}

ToolArguments == {"args_a", "args_b"}

\* message.function_call absent or falsy.
NoFunctionCall == [name |-> None, arguments |-> None]

FunctionCalls == [name : ToolNames, arguments : ToolArguments]

\* Descriptions of the exceptions get_chat_message_contents may raise.
ChatErrors == {"timeout", "rate limited"}

\* get_chat_message_contents raised.
ErrorResponses ==
    {[kind |-> "error", error |-> e, content |-> None, function_call |-> NoFunctionCall] :
        e \in ChatErrors}

\* get_chat_message_contents returned None or an empty list.
EmptyResponse ==
    [kind |-> "empty", error |-> None, content |-> None, function_call |-> NoFunctionCall]

\* response[0] carries a function call (its content may be missing).
ToolResponses ==
    {[kind |-> "message", error |-> None, content |-> c, function_call |-> f] :
        c \in {None, "Looking that up"}, f \in FunctionCalls}

\* response[0] carries non-empty content and no function call.
ContentResponses ==
    {[kind |-> "message", error |-> None, content |-> c, function_call |-> NoFunctionCall] :
        c \in {"Leave is 20 days", "See the handbook"}}

\* response[0] carries neither content nor a function call.
BlankResponses ==
    {[kind |-> "message", error |-> None, content |-> c, function_call |-> NoFunctionCall] :
        c \in {None, ""}}

IsError(r) == r.kind = "error"
IsEmpty(r) == r.kind = "empty"
IsToolRequest(r) == r.kind = "message" /\ Truthy(r.function_call.name)
IsContent(r) == r.kind = "message" /\ ~Truthy(r.function_call.name) /\ Truthy(r.content)
IsBlank(r) == r.kind = "message" /\ ~Truthy(r.function_call.name) /\ ~Truthy(r.content)

(***************************************************************************)
(* LLMService.agent_execute                                                *)
(***************************************************************************)
SystemPrompt == "system prompt"
UserQuery == "What is the leave policy?"

ThinkingLimitAnswer == "I reached my thinking limit. Please try asking a more specific question."

ErrorAnswer(e) == "I encountered an error while processing your question: " \o e

Message(role, content) == [role |-> role, content |-> content]

\* No dict returned yet.
NoResult == [answer |-> None, tool_calls |-> <<>>, iterations |-> 0, agent_plan |-> None]

\* The record appended to tool_calls for a function call seen in cycle `its`.
ToolCallRecordLate(f, its) ==
    [tool_name |-> f.name, arguments |-> f.arguments, iteration |-> its + 1]

ToolCallRecord(f, its) ==
    [tool_name |-> f.name, arguments |-> f.arguments, iteration |-> its]

\* tool_calls.append({...}).
RecordToolCallFront(tcs, f, its) == <<ToolCallRecord(f, its)>> \o tcs

RecordToolCall(tcs, f, its) == Append(tcs, ToolCallRecord(f, its))

\* The newest assistant turn of the history, "" when there is none.
RECURSIVE LastAssistantMsg(_)
LastAssistantMsg(hist) ==
    IF hist = <<>> THEN ""
    ELSE IF hist[Len(hist)].role = "assistant" THEN Str(hist[Len(hist)].content)
    ELSE LastAssistantMsg(SubSeq(hist, 1, Len(hist) - 1))

\* return {...} of the final-answer branch.
AnsweredResult(a, content) ==
    [a EXCEPT !.pc = "returned",
              !.result = [answer |-> Str(content),
                          tool_calls |-> a.tool_calls,
                          iterations |-> a.iterations,
                          agent_plan |-> "Completed"]]

\* return {...} after the for loop.
ExhaustedResult(a) ==
    [a EXCEPT !.pc = "returned",
              !.result = [answer |-> IF Truthy(LastAssistantMsg(a.chat_history))
                                     THEN LastAssistantMsg(a.chat_history)
                                     ELSE ThinkingLimitAnswer,
                          tool_calls |-> a.tool_calls,
                          iterations |-> a.iterations,
                          agent_plan |-> "Reached max iterations"]]

\* The outer except clause: the exception is swallowed and a dict returned.
FailedResult(a, e) ==
    [a EXCEPT !.pc = "returned",
              !.result = [answer |-> ErrorAnswer(e),
                          tool_calls |-> <<>>,
                          iterations |-> 0,
                          agent_plan |-> "Error during execution"]]

\* range(max_iterations) has another index after `it`.
HasNextIterationInclusive(it, max) == it + 1 <= max

HasNextIteration(it, max) == it + 1 < max

\* The end of a loop body that neither returned nor broke: the for statement
\* takes the next index and the body runs up to its chat call, or the loop ends.
NextIteration(a, max) ==
    IF HasNextIteration(a.iteration, max)
    THEN [a EXCEPT !.iteration = a.iteration + 1,
                   !.iterations = a.iterations + 1,
                   !.chat_calls = a.chat_calls + 1]
    ELSE ExhaustedResult(a)

\* agent_execute from its call to its first chat call (or to its return when
\* the loop has no iteration).
AgentBegin(query, system_prompt, max) ==
    LET a0 == [pc |-> "awaiting",
               iteration |-> -1,
               iterations |-> 0,
               tool_calls |-> <<>>,
               chat_history |-> <<Message("system", system_prompt), Message("user", query)>>,
               chat_calls |-> 0,
               result |-> NoResult]
    IN NextIteration(a0, max)

\* The except clause of the loop body.
OnIterationErrorAlwaysRaise(a, e, max) == FailedResult(a, e)

OnIterationError(a, e, max) ==
    IF a.iteration = max - 1 THEN FailedResult(a, e) ELSE NextIteration(a, max)

\* The loop body after a non-empty response: the assistant turn is appended,
\* then a function call is recorded, or content is the final answer.
OnMessageNoReturn(a, r, max) ==
    LET b == [a EXCEPT !.chat_history = Append(a.chat_history,
                                               Message("assistant", Str(r.content)))]
    IN IF Truthy(r.function_call.name)
       THEN NextIteration([b EXCEPT !.tool_calls =
                               RecordToolCall(b.tool_calls, r.function_call, b.iterations)],
                          max)
       ELSE NextIteration(b, max)

OnMessage(a, r, max) ==
    LET b == [a EXCEPT !.chat_history = Append(a.chat_history,
                                               Message("assistant", Str(r.content)))]
    IN IF Truthy(r.function_call.name)
       THEN NextIteration([b EXCEPT !.tool_calls =
                               RecordToolCall(b.tool_calls, r.function_call, b.iterations)],
                          max)
       ELSE IF Truthy(r.content)
       THEN AnsweredResult(b, r.content)
       ELSE NextIteration(b, max)

\* agent_execute from the completion of a chat call to the next chat call or
\* to its return.
AgentResume(a, r, max) ==
    IF IsError(r) THEN OnIterationError(a, r.error, max)
    ELSE IF IsEmpty(r) THEN ExhaustedResult(a)
    ELSE OnMessage(a, r, max)

AgentIdle ==
    [pc |-> "idle", iteration |-> -1, iterations |-> 0, tool_calls |-> <<>>,
     chat_history |-> <<>>, chat_calls |-> 0, result |-> NoResult]

(***************************************************************************)
(* The service singletons: Settings, PineconeClient, SemanticKernelManager,*)
(* EmbeddingService, VectorStoreService, LLMService                        *)
(***************************************************************************)
\* Settings: is the Pinecone key set, are the Azure OpenAI key and endpoint
\* set, is the embedding deployment named.
Settings ==
    [pinecone_api_key : BOOLEAN, azure_openai : BOOLEAN, embedding_deployment : BOOLEAN]

\* The singletons as their constructors leave them.
ServicesInit ==
    [pinecone_pc |-> None,            \* PineconeClient._pc
     vs_index |-> None,               \* VectorStoreService._index
     kernel |-> None,                 \* SemanticKernelManager.kernel
     sk_chat_service |-> None,        \* SemanticKernelManager.chat_service
     sk_embedding_service |-> None,   \* SemanticKernelManager.embedding_service
     embedding_inner |-> None,        \* EmbeddingService._embedding_service
     llm_chat_service |-> None,       \* LLMService._chat_service
     retrieval_initialized |-> FALSE] \* RetrievalPlugin._initialized

\* The i-th nearest entry of the index: every second one has metadata
\* without the text and filename keys.
RawMatch(i) ==
    [id |-> "doc_a_chunk_" \o ToString(i),
     score |-> 10 - i,
     metadata |-> IF i % 2 = 1
                  THEN [filename |-> "leave.pdf", text |-> "Leave is 20 days"]
                  ELSE [filename |-> None, text |-> None]]

\* How the third-party backends behave during one call of the program.
BackendBehaviours ==
    [pinecone : {"ok", "client_raises", "index_raises"},  \* Pinecone(...), pc.Index(...)
     kernel : {"ok", "chat_raises", "embedding_raises"},  \* AzureChatCompletion(...),
                                                          \* AzureTextEmbedding(...)
     search : {"ok", "embed_raises", "query_raises"},     \* generate_embeddings(...),
                                                          \* index.query(...)
     n_matches : 0..MaxMatches]                           \* entries near the query

NoError == None

\* PineconeClient._ensure_client.
EnsureClient(s, cfg, env) ==
    IF s.pinecone_pc # None THEN s
    ELSE IF ~cfg.pinecone_api_key THEN s
    ELSE IF env.pinecone = "client_raises" THEN s
    ELSE [s EXCEPT !.pinecone_pc = "Pinecone"]

\* PineconeClient.get_index: the services afterwards and the index or None.
GetIndex(s, cfg, env) ==
    LET s1 == EnsureClient(s, cfg, env)
    IN [svc |-> s1,
        index |-> IF s1.pinecone_pc = None THEN None
                  ELSE IF env.pinecone = "index_raises" THEN None
                  ELSE "Index"]

\* VectorStoreService.initialize.
VectorStoreInitialize(s, cfg, env) ==
    LET g == GetIndex(s, cfg, env)
    IN [g.svc EXCEPT !.vs_index = g.index]

\* SemanticKernelManager.initialize_kernel: the kernel is assigned first, and
\* an exception of a service constructor is logged and raised again.
InitializeKernel(s, cfg, env) ==
    LET s1 == [s EXCEPT !.kernel = "Kernel"]
        s2 == [s1 EXCEPT !.sk_chat_service = "AzureChatCompletion"]
        s3 == [s2 EXCEPT !.sk_embedding_service = "AzureTextEmbedding"]
    IN IF ~cfg.azure_openai THEN [svc |-> s1, raised |-> NoError]
       ELSE IF env.kernel = "chat_raises"
       THEN [svc |-> s1, raised |-> "chat service could not be created"]
       ELSE IF ~cfg.embedding_deployment THEN [svc |-> s2, raised |-> NoError]
       ELSE IF env.kernel = "embedding_raises"
       THEN [svc |-> s2, raised |-> "embedding service could not be created"]
       ELSE [svc |-> s3, raised |-> NoError]

\* SemanticKernelManager.get_kernel.
GetKernel(s, cfg, env) ==
    IF s.kernel = None THEN InitializeKernel(s, cfg, env)
    ELSE [svc |-> s, raised |-> NoError]

\* EmbeddingService.initialize.
EmbeddingServiceInitialize(s, cfg, env) ==
    LET k == GetKernel(s, cfg, env)
    IN IF k.raised # NoError THEN k
       ELSE [svc |-> [k.svc EXCEPT !.embedding_inner = k.svc.sk_embedding_service],
             raised |-> NoError]

\* LLMService.initialize.
LLMServiceInitialize(s, cfg, env) ==
    LET k == GetKernel(s, cfg, env)
    IN IF k.raised # NoError THEN k
       ELSE [svc |-> [k.svc EXCEPT !.llm_chat_service = k.svc.sk_chat_service],
             raised |-> NoError]

\* The call self._embedding_service.generate_embeddings(texts) inside the
\* try blocks of EmbeddingService: None has no such attribute.
BackendEmbed(s, env) ==
    IF s.embedding_inner = None
    THEN "'NoneType' object has no attribute 'generate_embeddings'"
    ELSE IF env.search = "embed_raises" THEN "embedding request failed"
    ELSE NoError

\* EmbeddingService.generate_embedding: the services afterwards and the
\* exception it raises, if any.
GenerateEmbedding(s, cfg, env) ==
    LET i == IF s.embedding_inner = None
             THEN EmbeddingServiceInitialize(s, cfg, env)
             ELSE [svc |-> s, raised |-> NoError]
    IN IF i.raised # NoError THEN i
       ELSE [svc |-> i.svc, raised |-> BackendEmbed(i.svc, env)]

(***************************************************************************)
(* VectorStoreService.search                                               *)
(***************************************************************************)
\* One entry of the list search returns, from a match of the index:
\* metadata defaults to {} and text to metadata's text or "".
SearchMatch(m) ==
    [id |-> m.id,
     score |-> m.score,
     metadata |-> m.metadata,
     text |-> IF m.metadata.text = None THEN "" ELSE m.metadata.text]

FormatMatches(ms) == [i \in 1..Len(ms) |-> SearchMatch(ms[i])]

\* The matches index.query gives back for top_k.
IndexQuery(env, top_k) == [i \in 1..Min(top_k, env.n_matches) |-> RawMatch(i)]

\* The try block of search: embed the query, query the index, format.
SearchTry(s, cfg, env, top_k) ==
    LET e == GenerateEmbedding(s, cfg, env)
    IN IF e.raised # NoError
       THEN [svc |-> e.svc, raised |-> e.raised, matches |-> <<>>, failed |-> "embedding"]
       ELSE IF env.search = "query_raises"
       THEN [svc |-> e.svc, raised |-> "index query failed", matches |-> <<>>,
             failed |-> "query"]
       ELSE [svc |-> e.svc, raised |-> NoError,
             matches |-> FormatMatches(IndexQuery(env, top_k)), failed |-> None]

\* The except clause of search: log the error and return [].
SearchExceptReraise(t) == t

SearchExcept(t) ==
    IF t.raised # NoError THEN [t EXCEPT !.raised = NoError, !.matches = <<>>] ELSE t

\* VectorStoreService.search: the services afterwards, the exception that
\* reaches the caller (if any), the returned list, and which step failed.
Search(s, cfg, env, top_k) ==
    LET s1 == IF s.vs_index = None THEN VectorStoreInitialize(s, cfg, env) ELSE s
    IN IF s1.vs_index = None
       THEN [svc |-> s1, raised |-> NoError, matches |-> <<>>, failed |-> "index"]
       ELSE SearchExcept(SearchTry(s1, cfg, env, top_k))

(***************************************************************************)
(* RetrievalPlugin: the kernel functions that search the index             *)
(***************************************************************************)
RetrievalTools ==
    {"retrieve_documents", "retrieve_and_answer", "search_policy_documents",
     "get_document_details", "search_related_topics", "list_available_policies"}

\* top_k each tool passes to search (the defaults of its signature).
ToolTopK(tool) ==
    CASE tool = "retrieve_documents" -> 5
      [] tool = "retrieve_and_answer" -> 3
      [] tool = "search_policy_documents" -> 3
      [] tool = "get_document_details" -> 5
      [] tool = "search_related_topics" -> 5
      [] tool = "list_available_policies" -> 10

\* The text each tool returns when search gave no result.
NotFoundText(tool) ==
    CASE tool = "retrieve_documents" -> "No relevant documents found in the knowledge base."
      [] tool = "retrieve_and_answer" -> "Context: No relevant policy documents found."
      [] tool = "search_policy_documents" -> "No policies found for 'query'."
      [] tool = "get_document_details" -> "Document 'identifier' not found."
      [] tool = "search_related_topics" -> "No policies found relating 'topic1' and 'topic2'."
      [] tool = "list_available_policies" -> "No policy documents found in the knowledge base."

\* The text each tool returns from its except clause.
ToolErrorText(tool, e) == "Error in " \o tool \o ": " \o e

\* The text a tool builds from a non-empty result list.
FormattedText(tool, ms) == "Results of " \o tool \o ": " \o ToString(Len(ms))

\* RetrievalPlugin._ensure_initialized.
EnsureInitialized(s, cfg, env) ==
    IF s.retrieval_initialized THEN s
    ELSE [VectorStoreInitialize(s, cfg, env) EXCEPT !.retrieval_initialized = TRUE]

\* A tool of RetrievalPlugin: the services afterwards, the exception that
\* reaches the kernel (if any) and the returned text.
RetrievalTool(tool, s, cfg, env) ==
    LET s1 == EnsureInitialized(s, cfg, env)
        r == Search(s1, cfg, env, ToolTopK(tool))
    IN [svc |-> r.svc,
        raised |-> NoError,
        text |-> IF r.raised # NoError THEN ToolErrorText(tool, r.raised)
                 ELSE IF r.matches = <<>> THEN NotFoundText(tool)
                 ELSE FormattedText(tool, r.matches),
        search |-> r]

\* No call made yet.
NoSearch == [svc |-> ServicesInit, raised |-> NoError, matches |-> <<>>, failed |-> None]

NoToolOutput == [tool |-> None, raised |-> NoError, text |-> None]

TopKs == {1, 5}

InitServices ==
    /\ settings \in Settings
    /\ svc = ServicesInit
    /\ search_out = [called |-> FALSE, out |-> NoSearch]
    /\ tool_out = NoToolOutput

\* search and the tools are called directly only in behaviours that exercise
\* nothing else of the program.
DirectCalls ==
    /\ agent.pc = "off"
    /\ emb.pc = "off"
    /\ ing.pc = "off"
    /\ split.pc = "off"
    /\ clean.pc = "off"
    /\ health.pc = "off"
    /\ status_calls.pc = "off"
    /\ memory_calls.pc = "off"
    /\ \A r \in DOMAIN reqs : reqs[r].pc = "off"

\* A caller awaits vector_store_service.search(query, top_k, namespace).
SearchCall ==
    \E env \in BackendBehaviours, k \in TopKs :
        LET r == Search(svc, settings, env, k)
        IN /\ DirectCalls
           /\ svc' = r.svc
           /\ search_out' = [called |-> TRUE, out |-> r]
           /\ tool_out' = NoToolOutput
           /\ UNCHANGED settings
           /\ UNCHANGED <<agentVars, ingestVars, queryVars>>

\* The kernel invokes a tool of RetrievalPlugin.
ToolCall ==
    \E env \in BackendBehaviours, tool \in RetrievalTools :
        LET r == RetrievalTool(tool, svc, settings, env)
        IN /\ DirectCalls
           /\ svc' = r.svc
           /\ search_out' = [called |-> TRUE, out |-> r.search]
           /\ tool_out' = [tool |-> tool, raised |-> r.raised, text |-> r.text]
           /\ UNCHANGED settings
           /\ UNCHANGED <<agentVars, ingestVars, queryVars>>

NextSearch ==
    \/ SearchCall
    \/ ToolCall


(***************************************************************************)
(* data/ingestion/text_splitter.py: TextSplitter                           *)
(* A text is a sequence of characters.                                     *)
(***************************************************************************)
\* The characters of the texts: a letter, the two kinds of whitespace and
\* the sentence punctuation.
Chars == {"a", " ", "\n", "."}

Texts == UNION {[1..n -> Chars] : n \in 0..MaxTextLen}

\* str.isspace() of a character.
IsSpace(c) == c \in {" ", "\n"}

\* A character of the class [.!?].
IsPunct(c) == c = "."

\* self.separator.
Separator == <<"\n", "\n">>

\* str.lstrip(), str.rstrip(), str.strip().
RECURSIVE LStrip(_)
LStrip(t) == IF t # <<>> /\ IsSpace(Head(t)) THEN LStrip(Tail(t)) ELSE t

RECURSIVE RStrip(_)
RStrip(t) ==
    IF t # <<>> /\ IsSpace(t[Len(t)]) THEN RStrip(SubSeq(t, 1, Len(t) - 1)) ELSE t

Strip(t) == RStrip(LStrip(t))

\* t[i:] of Python, for 0 <= i.
From(t, i) == SubSeq(t, i + 1, Len(t))

\* t.startswith(p).
StartsWith(t, p) == Len(p) <= Len(t) /\ SubSeq(t, 1, Len(p)) = p

\* text.split(self.separator).
RECURSIVE SplitSeparator(_)
SplitSeparator(t) ==
    IF \E i \in 1..Len(t) : StartsWith(From(t, i - 1), Separator)
    THEN LET i == CHOOSE i \in 1..Len(t) :
                      /\ StartsWith(From(t, i - 1), Separator)
                      /\ \A j \in 1..(i - 1) : ~StartsWith(From(t, j - 1), Separator)
         IN <<SubSeq(t, 1, i - 1)>> \o SplitSeparator(From(t, i - 1 + Len(Separator)))
    ELSE <<t>>

\* The length of the longest prefix of t whose characters satisfy the class.
RECURSIVE RunOfPunct(_)
RunOfPunct(t) == IF t # <<>> /\ IsPunct(Head(t)) THEN 1 + RunOfPunct(Tail(t)) ELSE 0

RECURSIVE RunOfSpace(_)
RunOfSpace(t) == IF t # <<>> /\ IsSpace(Head(t)) THEN 1 + RunOfSpace(Tail(t)) ELSE 0

\* The length of the match of [.!?]+\s+ at the start of t, 0 when there is
\* none.
SentenceEnd(t) ==
    LET p == RunOfPunct(t)
        s == RunOfSpace(From(t, p))
    IN IF p > 0 /\ s > 0 THEN p + s ELSE 0

\* re.split(r'[.!?]+\s+', text).
RECURSIVE SplitSentences(_)
SplitSentences(t) ==
    IF \E i \in 1..Len(t) : SentenceEnd(From(t, i - 1)) > 0
    THEN LET i == CHOOSE i \in 1..Len(t) :
                      /\ SentenceEnd(From(t, i - 1)) > 0
                      /\ \A j \in 1..(i - 1) : SentenceEnd(From(t, j - 1)) = 0
         IN <<SubSeq(t, 1, i - 1)>> \o
            SplitSentences(From(t, i - 1 + SentenceEnd(From(t, i - 1))))
    ELSE <<t>>

\* text.split(): the words between runs of whitespace.
RECURSIVE Words(_)
Words(t) ==
    LET u == LStrip(t)
        n == IF \E i \in 1..Len(u) : IsSpace(u[i])
             THEN (CHOOSE i \in 1..Len(u) :
                       IsSpace(u[i]) /\ \A j \in 1..(i - 1) : ~IsSpace(u[j])) - 1
             ELSE Len(u)
    IN IF u = <<>> THEN <<>> ELSE <<SubSeq(u, 1, n)>> \o Words(From(u, n))

\* " ".join(words).
RECURSIVE JoinWords(_)
JoinWords(ws) ==
    IF ws = <<>> THEN <<>>
    ELSE IF Len(ws) = 1 THEN ws[1]
    ELSE ws[1] \o <<" ">> \o JoinWords(Tail(ws))

\* sum(len(w) + 1 for w in words).
RECURSIVE LengthOfWords(_)
LengthOfWords(ws) ==
    IF ws = <<>> THEN 0 ELSE Len(ws[1]) + 1 + LengthOfWords(Tail(ws))

\* seq[-n:] of Python for n >= 0: the whole sequence when n is 0.
LastItems(seq, n) ==
    IF n = 0 \/ n >= Len(seq) THEN seq ELSE SubSeq(seq, Len(seq) - n + 1, Len(seq))

\* _get_overlap.
GetOverlap(text, chunk_overlap) ==
    IF Len(text) <= chunk_overlap THEN text ELSE LastItems(text, chunk_overlap)

\* A chunk as it is appended to a list, with the statement that appended it.
Emitted(text, why) == [text |-> text, why |-> why]

\* if current_chunk: chunks.append(current_chunk.strip()), after a loop.
AddFinalChunkDropped(chunks, current_chunk, why) == chunks

AddFinalChunk(chunks, current_chunk, why) ==
    IF current_chunk # <<>> THEN Append(chunks, Emitted(Strip(current_chunk), why))
    ELSE chunks

\* The loop of _split_by_words over the words left, from the chunks so far,
\* current_chunk and current_length.
RECURSIVE WordLoop(_, _, _, _, _, _)
WordLoop(words, chunks, current_chunk, current_length, chunk_size, chunk_overlap) ==
    IF words = <<>>
    THEN IF current_chunk # <<>>
         THEN Append(chunks, Emitted(JoinWords(current_chunk), "words_final"))
         ELSE chunks
    ELSE LET word == Head(words)
             word_length == Len(word) + 1
             overlap_words == chunk_overlap \div 10
             kept == Append(LastItems(current_chunk, overlap_words), word)
         IN IF current_length + word_length > chunk_size
            THEN IF current_chunk # <<>>
                 THEN WordLoop(Tail(words),
                               Append(chunks, Emitted(JoinWords(current_chunk), "words_overflow")),
                               kept, LengthOfWords(kept), chunk_size, chunk_overlap)
                 ELSE WordLoop(Tail(words), Append(chunks, Emitted(word, "long_word")),
                               <<>>, 0, chunk_size, chunk_overlap)
            ELSE WordLoop(Tail(words), chunks, Append(current_chunk, word),
                          current_length + word_length, chunk_size, chunk_overlap)

\* _split_by_words.
SplitByWords(text, chunk_size, chunk_overlap) ==
    WordLoop(Words(text), <<>>, <<>>, 0, chunk_size, chunk_overlap)

\* The loop of _split_large_part over the sentences left.
RECURSIVE SentenceLoop(_, _, _, _, _)
SentenceLoop(sentences, chunks, current_chunk, chunk_size, chunk_overlap) ==
    IF sentences = <<>>
    THEN AddFinalChunk(chunks, current_chunk, "sentences_final")
    ELSE LET sentence == Head(sentences)
         IN IF Len(current_chunk) + Len(sentence) > chunk_size
            THEN IF current_chunk # <<>>
                 THEN SentenceLoop(Tail(sentences),
                                   Append(chunks, Emitted(Strip(current_chunk), "overflow")),
                                   GetOverlap(current_chunk, chunk_overlap) \o sentence,
                                   chunk_size, chunk_overlap)
                 ELSE SentenceLoop(Tail(sentences),
                                   chunks \o SplitByWords(sentence, chunk_size, chunk_overlap),
                                   <<>>, chunk_size, chunk_overlap)
            ELSE SentenceLoop(Tail(sentences), chunks,
                              IF current_chunk # <<>>
                              THEN current_chunk \o <<".", " ">> \o sentence
                              ELSE sentence,
                              chunk_size, chunk_overlap)

\* _split_large_part.
SplitLargePart(text, chunk_size, chunk_overlap) ==
    SentenceLoop(SplitSentences(text), <<>>, <<>>, chunk_size, chunk_overlap)

\* The loop of split_text over the parts left.
RECURSIVE PartLoop(_, _, _, _, _)
PartLoop(parts, chunks, current_chunk, chunk_size, chunk_overlap) ==
    IF parts = <<>>
    THEN AddFinalChunk(chunks, current_chunk, "final")
    ELSE LET part == Strip(Head(parts))
             sub_chunks == SplitLargePart(part, chunk_size, chunk_overlap)
         IN IF part = <<>>
            THEN PartLoop(Tail(parts), chunks, current_chunk, chunk_size, chunk_overlap)
            ELSE IF Len(current_chunk) + Len(part) + Len(Separator) > chunk_size
            THEN IF current_chunk # <<>>
                 THEN PartLoop(Tail(parts),
                               Append(chunks, Emitted(Strip(current_chunk), "overflow")),
                               GetOverlap(current_chunk, chunk_overlap) \o part,
                               chunk_size, chunk_overlap)
                 ELSE PartLoop(Tail(parts),
                               chunks \o SubSeq(sub_chunks, 1, Len(sub_chunks) - 1),
                               IF sub_chunks # <<>> THEN sub_chunks[Len(sub_chunks)].text
                               ELSE <<>>,
                               chunk_size, chunk_overlap)
            ELSE PartLoop(Tail(parts), chunks,
                          IF current_chunk # <<>>
                          THEN current_chunk \o Separator \o part
                          ELSE part,
                          chunk_size, chunk_overlap)

\* split_text, each chunk with the statement that appended it.
SplitTextEmitted(text, chunk_size, chunk_overlap) ==
    IF text = <<>> \/ Strip(text) = <<>> THEN <<>>
    ELSE PartLoop(SplitSeparator(text), <<>>, <<>>, chunk_size, chunk_overlap)

\* split_text.
SplitText(text, chunk_size, chunk_overlap) ==
    LET e == SplitTextEmitted(text, chunk_size, chunk_overlap)
    IN [k \in 1..Len(e) |-> e[k].text]

(***************************************************************************)
(* data/preprocessing/cleaner.py: TextCleaner                              *)
(* A character outside ASCII is written U+ and its code point.             *)
(***************************************************************************)
\* The pieces the input texts are made of: a letter, a space, a newline,
\* the start of a URL, an e-mail address and a key of the encoding table.
Fragments ==
    {<<"a">>, <<" ">>, <<"\n">>,
     <<"h", "t", "t", "p", ":", "/", "/">>,
     <<"a", "@", "a", ".", "a", "a">>,
     <<"U+251C", "U+0413", " ">>}

\* The input texts: at most n fragments, one after the other.
RECURSIVE FragmentTexts(_)
FragmentTexts(n) ==
    IF n = 0 THEN {<<>>}
    ELSE LET shorter == FragmentTexts(n - 1)
         IN shorter \cup {t \o f : t \in shorter, f \in Fragments}

\* The arguments (remove_urls, remove_emails, fix_encoding) of a call: the
\* defaults, which are those of ingest_documents, all steps, no step.
CleanFlags ==
    {[remove_urls |-> TRUE, remove_emails |-> FALSE, fix_encoding |-> TRUE],
     [remove_urls |-> TRUE, remove_emails |-> TRUE, fix_encoding |-> TRUE],
     [remove_urls |-> FALSE, remove_emails |-> FALSE, fix_encoding |-> FALSE]}

\* The characters of the class [A-Za-z] that the texts hold.
AsciiLetters == {"a", "h", "t", "p"}

\* \w of a character: the ASCII letters and the Cyrillic letters of the
\* encoding table (a box-drawing character is not one).
IsWord(c) == c \in AsciiLetters \cup {"U+0413", "U+0430", "U+0432", "U+0442", "U+0412",
                                      "U+043C", "U+0414", "U+0423", "U+0439", "U+0438",
                                      "U+0410", "U+0424"}

\* str.replace(old, new): the occurrences from the left, not overlapping.
RECURSIVE Replace(_, _, _)
Replace(t, old, new) ==
    IF t = <<>> THEN <<>>
    ELSE IF StartsWith(t, old) THEN new \o Replace(From(t, Len(old)), old, new)
    ELSE <<Head(t)>> \o Replace(Tail(t), old, new)

\* The dict replacements in its insertion order; the key written twice keeps
\* its first position and its second value.
Replacements ==
    LET k == <<"U+251C", "U+0432", "U+0442", "U+0412", "U+043C">>
    IN <<[old |-> k \o <<"U+0442", "U+0414", "U+0432">>, new |-> <<"'">>],
         [old |-> k \o <<"U+253C", "U+0423">>, new |-> <<"\"">>],
         [old |-> k, new |-> <<"\"">>],
         [old |-> k \o <<"\"">>, new |-> <<"U+0442", "U+0410", "U+0423">>],
         [old |-> <<"U+251C", "U+0413", "U+252C", "U+0439">>, new |-> <<"U+251C", "U+0439">>],
         [old |-> <<"U+251C", "U+0413", "U+252C", "U+0438">>, new |-> <<"U+251C", "U+0438">>],
         [old |-> <<"U+251C", "U+0413", " ">>, new |-> <<"U+251C", "U+0430">>]>>

\* fix_encoding_issues: the replacements one after the other.
RECURSIVE ReplaceEach(_, _)
ReplaceEach(t, table) ==
    IF table = <<>> THEN t
    ELSE ReplaceEach(Replace(t, Head(table).old, Head(table).new), Tail(table))

FixEncodingIssues(t) == ReplaceEach(t, Replacements)

\* A character of [a-zA-Z]|[0-9]|[$-_@.&+]|[!*\(\),]: $-_ is the range from
\* "$" to "_", which holds "'", ".", "/", ":" and "@".
IsUrlChar(c) == c \in AsciiLetters \cup {"'", ".", "/", ":", "@"}

\* The length of the longest prefix of t made of URL characters.
RECURSIVE RunOfUrl(_)
RunOfUrl(t) == IF t # <<>> /\ IsUrlChar(Head(t)) THEN 1 + RunOfUrl(Tail(t)) ELSE 0

\* The length of the match of http[s]?://(...)+ at the start of t, 0 when
\* there is none.
UrlMatch(t) ==
    LET http == <<"h", "t", "t", "p">>
        rest == <<":", "/", "/">>
        n == IF StartsWith(t, http \o <<"s">> \o rest) THEN 8
             ELSE IF StartsWith(t, http \o rest) THEN 7
             ELSE 0
    IN IF n > 0 /\ RunOfUrl(From(t, n)) > 0 THEN n + RunOfUrl(From(t, n)) ELSE 0

\* remove_urls.
RECURSIVE RemoveUrls(_)
RemoveUrls(t) ==
    IF t = <<>> THEN <<>>
    ELSE IF UrlMatch(t) > 0 THEN RemoveUrls(From(t, UrlMatch(t)))
    ELSE <<Head(t)>> \o RemoveUrls(Tail(t))

\* \b before the i-th character of t (after the last one for i = Len(t) + 1).
Boundary(t, i) ==
    (i - 1 \in 1..Len(t) /\ IsWord(t[i - 1])) # (i \in 1..Len(t) /\ IsWord(t[i]))

\* The characters of [A-Za-z0-9._%+-] and [A-Za-z0-9.-], and of [A-Z|a-z].
IsAddressChar(c) == c \in AsciiLetters \cup {"."}

IsDomainEndChar(c) == c \in AsciiLetters

AllIn(t, from, to, Class(_)) == \A k \in from..to : Class(t[k])

\* Where the "@" of a match that starts at the i-th character is: after one
\* or more characters of [A-Za-z0-9._%+-]; 0 when there is none.
EmailAt(t, i) ==
    IF /\ Boundary(t, i)
       /\ \E j \in (i + 1)..Len(t) : t[j] = "@" /\ AllIn(t, i, j - 1, IsAddressChar)
    THEN CHOOSE j \in (i + 1)..Len(t) : t[j] = "@" /\ AllIn(t, i, j - 1, IsAddressChar)
    ELSE 0

\* The matches of \b[A-Za-z0-9._%+-]+@[A-Za-z0-9.-]+\.[A-Z|a-z]{2,}\b that
\* start at the i-th character: where the last "." is, and the end.
EmailMatches(t, i) ==
    LET at == EmailAt(t, i)
    IN IF at = 0 THEN {}
       ELSE {m \in ((at + 2)..Len(t)) \X ((at + 4)..Len(t)) :
                /\ AllIn(t, at + 1, m[1] - 1, IsAddressChar)
                /\ t[m[1]] = "."
                /\ m[1] + 2 <= m[2] /\ AllIn(t, m[1] + 1, m[2], IsDomainEndChar)
                /\ Boundary(t, m[2] + 1)}

\* The end of the match the regex engine takes: the longest domain, then the
\* longest top-level part.
EmailMatchEnd(t, i) ==
    LET m == CHOOSE m \in EmailMatches(t, i) :
                 \A o \in EmailMatches(t, i) :
                     o[1] < m[1] \/ (o[1] = m[1] /\ o[2] <= m[2])
    IN m[2]

\* remove_emails, from the i-th character on.
RECURSIVE RemoveEmailsFrom(_, _)
RemoveEmailsFrom(t, i) ==
    IF i > Len(t) THEN <<>>
    ELSE IF EmailMatches(t, i) # {} THEN RemoveEmailsFrom(t, EmailMatchEnd(t, i) + 1)
    ELSE <<t[i]>> \o RemoveEmailsFrom(t, i + 1)

RemoveEmails(t) == RemoveEmailsFrom(t, 1)

\* re.sub of a run of one or more c (min = 1), or of two or more (min = 2),
\* by the replacement.
RECURSIVE RunOf(_, _)
RunOf(t, c) == IF t # <<>> /\ Head(t) = c THEN 1 + RunOf(Tail(t), c) ELSE 0

RECURSIVE SubRuns(_, _, _, _)
SubRuns(t, c, min, new) ==
    IF t = <<>> THEN <<>>
    ELSE IF RunOf(t, c) >= min THEN new \o SubRuns(From(t, RunOf(t, c)), c, min, new)
    ELSE <<Head(t)>> \o SubRuns(Tail(t), c, min, new)

\* text.split('\n').
RECURSIVE SplitLines(_)
SplitLines(t) ==
    IF \E i \in 1..Len(t) : t[i] = "\n"
    THEN LET i == CHOOSE i \in 1..Len(t) : t[i] = "\n" /\ \A j \in 1..(i - 1) : t[j] # "\n"
         IN <<SubSeq(t, 1, i - 1)>> \o SplitLines(From(t, i))
    ELSE <<t>>

\* '\n'.join(lines).
RECURSIVE JoinNewline(_)
JoinNewline(lines) ==
    IF Len(lines) = 1 THEN lines[1]
    ELSE lines[1] \o <<"\n">> \o JoinNewline(Tail(lines))

\* remove_extra_whitespace.
RemoveExtraWhitespace(t) ==
    LET t1 == SubRuns(t, " ", 1, <<" ">>)
        t2 == SubRuns(t1, "\n", 2, <<"\n", "\n">>)
        split_lines == SplitLines(t2)
        lines == [k \in 1..Len(split_lines) |-> Strip(split_lines[k])]
    IN JoinNewline(lines)

\* clean up to its whitespace normalisation.
CleanSteps(text, flags) ==
    LET t1 == IF flags.fix_encoding THEN FixEncodingIssues(text) ELSE text
        t2 == IF flags.remove_urls THEN RemoveUrls(t1) ELSE t1
    IN IF flags.remove_emails THEN RemoveEmails(t2) ELSE t2

\* clean.
Clean(text, flags) == Strip(RemoveExtraWhitespace(CleanSteps(text, flags)))

CleanOff ==
    [pc |-> "off", text |-> <<>>,
     flags |-> [remove_urls |-> TRUE, remove_emails |-> FALSE, fix_encoding |-> TRUE],
     result |-> <<>>]

\* A caller is about to call clean(text, ...).
InitClean ==
    \E text \in FragmentTexts(MaxFragments), flags \in CleanFlags :
        clean = [CleanOff EXCEPT !.pc = "idle", !.text = text, !.flags = flags]

\* A caller awaits nothing: clean(text, ...) runs to its return.
CleanCall ==
    /\ clean.pc = "idle"
    /\ clean' = [clean EXCEPT !.pc = "returned", !.result = Clean(clean.text, clean.flags)]
    /\ UNCHANGED <<emb, ing, split>>
    /\ UNCHANGED <<agentVars, searchVars, queryVars>>

NextClean == CleanCall

SplitOff ==
    [pc |-> "off", text |-> <<>>, chunk_size |-> 1, chunk_overlap |-> 0, emitted |-> <<>>,
     chunks |-> <<>>]

InitSplit == split = [SplitOff EXCEPT !.pc = "idle"] /\ clean = CleanOff

\* A caller awaits nothing: split_text(text) runs to its return.
SplitCall ==
    /\ split.pc = "idle"
    /\ \E text \in Texts, chunk_size \in 1..MaxChunkSize,
          chunk_overlap \in 0..MaxChunkOverlap :
           split' = [pc |-> "returned", text |-> text, chunk_size |-> chunk_size,
                     chunk_overlap |-> chunk_overlap,
                     emitted |-> SplitTextEmitted(text, chunk_size, chunk_overlap),
                     chunks |-> SplitText(text, chunk_size, chunk_overlap)]
    /\ UNCHANGED <<emb, ing, clean>>
    /\ UNCHANGED <<agentVars, searchVars, queryVars>>

NextSplit == SplitCall

(***************************************************************************)
(* scripts/ingest_documents.py: generate_embeddings_batch                  *)
(***************************************************************************)
ChunkId(document_id, i) == document_id \o "_chunk_" \o ToString(i)

\* A chunk dict as ingest_documents prepares it: no 'embedding' key yet.
Chunk(document_id, i, total) ==
    [id |-> ChunkId(document_id, i),
     document_id |-> document_id,
     chunk_index |-> i,
     total_chunks |-> total,
     text |-> "text of " \o ChunkId(document_id, i),
     has_embedding_key |-> FALSE,
     embedding |-> <<>>]

\* The vector the embedding model returns for a text: dim components.
EmbeddingVector(dim) == [k \in 1..dim |-> k]

\* chunk['embedding'] = embedding.
WithEmbedding(chunk, vector) ==
    [chunk EXCEPT !.has_embedding_key = TRUE, !.embedding = vector]

EmbedOff ==
    [pc |-> "off", chunks |-> <<>>, batch_size |-> 1, i |-> 0,
     chunks_with_embeddings |-> <<>>, batch_log |-> <<>>, dim |-> 1, error |-> NoError]

\* The head of the for loop over range(0, len(chunks), batch_size): the next
\* batch is sent to the embedding service, or the list is returned.
EmbedLoop(e) ==
    IF e.i < Len(e.chunks) THEN [e EXCEPT !.pc = "awaiting"]
    ELSE [e EXCEPT !.pc = "returned"]

\* generate_embeddings_batch up to its first embedding call: the services
\* afterwards and the run. embedding_service.initialize() is not guarded.
EmbedBegin(s, cfg, env, chunks, batch_size, dim) ==
    LET i == EmbeddingServiceInitialize(s, cfg, env)
        e0 == [EmbedOff EXCEPT !.chunks = chunks, !.batch_size = batch_size, !.dim = dim]
    IN IF i.raised # NoError
       THEN [svc |-> i.svc, run |-> [e0 EXCEPT !.pc = "raised", !.error = i.raised]]
       ELSE [svc |-> i.svc, run |-> EmbedLoop(e0)]

\* batch = chunks[i:i + batch_size].
Batch(e) == SubSeq(e.chunks, e.i + 1, Min(e.i + e.batch_size, Len(e.chunks)))

\* The try branch: every chunk of the batch gets its vector and is appended.
EmbedOnSuccess(e) ==
    LET batch == Batch(e)
    IN [e EXCEPT !.chunks_with_embeddings =
                     e.chunks_with_embeddings \o
                     [k \in 1..Len(batch) |-> WithEmbedding(batch[k], EmbeddingVector(e.dim))],
                 !.batch_log = Append(e.batch_log, "ok")]

\* The except branch: the batch is kept without embeddings.
EmbedOnFailureDropping(e) ==
    [e EXCEPT !.batch_log = Append(e.batch_log, "raised")]

EmbedOnFailure(e) ==
    [e EXCEPT !.chunks_with_embeddings = e.chunks_with_embeddings \o Batch(e),
              !.batch_log = Append(e.batch_log, "raised")]

\* generate_embeddings_batch from the completion of an embedding call to the
\* next one or to its return; `raised` is the exception of the call or NoError.
EmbedResume(e, raised) ==
    LET e1 == IF raised = NoError THEN EmbedOnSuccess(e) ELSE EmbedOnFailure(e)
    IN EmbedLoop([e1 EXCEPT !.i = e.i + e.batch_size])

\* EmbeddingService.generate_embeddings_batch: the exception it raises for a
\* backend that answers (ok) or fails, or NoError.
ServiceEmbedBatch(s, ok) ==
    IF s.embedding_inner = None
    THEN "'NoneType' object has no attribute 'generate_embeddings'"
    ELSE IF ~ok THEN "embedding request failed"
    ELSE NoError

(***************************************************************************)
(* scripts/ingest_documents.py: ingest_documents                           *)
(***************************************************************************)
\* document_id = "doc_" + uuid4 hex: a random value drawn for every document
\* of every run (seed stands for the draws of one run).
DocumentId(seed, d) == "doc_" \o ToString(seed) \o ToString(d)

Seeds == {1, 2}

\* The script is run at most MaxRuns times over the directory.
MaxRuns == 2

\* The chunk counts of the documents of a directory.
RECURSIVE CountLists(_)
CountLists(n) ==
    IF n = 0 THEN {<<>>}
    ELSE CountLists(n - 1) \cup
         {Append(q, c) : q \in {t \in CountLists(n - 1) : Len(t) = n - 1},
                         c \in 0..MaxChunksPerDoc}

\* all_chunks after the loop over the documents.
RECURSIVE AllChunks(_, _)
AllChunks(seed, counts) ==
    IF counts = <<>> THEN <<>>
    ELSE LET d == Len(counts)
             n == counts[d]
         IN AllChunks(seed, SubSeq(counts, 1, d - 1)) \o
            [k \in 1..n |-> Chunk(DocumentId(seed, d), k - 1, n)]

\* The record written to the document store for a chunk.
MongoChunk(chunk) ==
    [chunk_id |-> chunk.id,
     document_id |-> chunk.document_id,
     chunk_index |-> chunk.chunk_index,
     total_chunks |-> chunk.total_chunks,
     text |-> chunk.text,
     has_embedding |-> chunk.has_embedding_key]

\* The vector prepared for the index from a chunk that has an embedding.
PineconeVector(chunk) ==
    [id |-> chunk.id,
     values |-> SubSeq(chunk.embedding, 1, Min(PineconeDimension, Len(chunk.embedding))),
     text |-> chunk.text]

\* The chunks with a non-empty 'embedding'.
RECURSIVE WithVectors(_)
WithVectors(chunks) ==
    IF chunks = <<>> THEN <<>>
    ELSE LET rest == WithVectors(SubSeq(chunks, 1, Len(chunks) - 1))
             c == chunks[Len(chunks)]
         IN IF c.has_embedding_key /\ c.embedding # <<>>
            THEN Append(rest, PineconeVector(c)) ELSE rest

\* How the stores behave during a run of the script.
StoreBehaviours ==
    [mongo : {"connected", "unavailable"},   \* MongoDBClient.connect
     insert : {"ok", "raises"},              \* insert_many
     pinecone : {"ok", "client_raises", "index_raises"},
     kernel : {"ok", "chat_raises", "embedding_raises"},
     upsert : {"ok", "raises"}]              \* index.upsert

\* The state of a run of the script: mongo_store and pinecone_store are what
\* this run wrote; counts is the directory it reads, previous what the run
\* before it prepared.
IngestOff ==
    [pc |-> "off", outcome |-> None, mongo_connected |-> FALSE, all_chunks |-> <<>>,
     chunks_with_embeddings |-> <<>>, insert |-> "not attempted", mongo_store |-> <<>>,
     pinecone_vectors |-> <<>>, pinecone_store |-> <<>>,
     run |-> 1, counts |-> <<>>, previous |-> [outcome |-> None, all_chunks |-> <<>>]]

\* ingest_documents after generate_embeddings_batch returned: the chunks are
\* written to the document store when it is connected, the vectors are
\* uploaded when the index is there (the vectors of a run fit in one upload
\* batch of 100).
StoreAndUpload(g, s, cfg, env, chunks) ==
    LET stored == IF g.mongo_connected /\ env.insert = "ok"
                  THEN [k \in 1..Len(chunks) |-> MongoChunk(chunks[k])]
                  ELSE <<>>
        vectors == WithVectors(chunks)
        idx == GetIndex(s, cfg, env)
    IN [svc |-> idx.svc,
        run |-> [g EXCEPT !.pc = "done",
                          !.outcome = "completed",
                          !.chunks_with_embeddings = chunks,
                          !.insert = IF ~g.mongo_connected THEN "not attempted"
                                     ELSE env.insert,
                          !.mongo_store = stored,
                          !.pinecone_vectors = vectors,
                          !.pinecone_store = IF idx.index # None /\ env.upsert = "ok"
                                             THEN vectors ELSE <<>>]]

\* except Exception around generate_embeddings_batch: log and return.
AbortOnEmbeddingError(g) ==
    [g EXCEPT !.pc = "done", !.outcome = "embedding error"]

InitIngestServices ==
    /\ settings \in Settings
    /\ svc = ServicesInit
    /\ search_out = [called |-> FALSE, out |-> NoSearch]
    /\ tool_out = NoToolOutput

InitEmbed ==
    /\ InitIngestServices
    /\ split = SplitOff
    /\ clean = CleanOff
    /\ emb = [EmbedOff EXCEPT !.pc = "idle"]
    /\ ing = IngestOff

InitIngest ==
    /\ InitIngestServices
    /\ split = SplitOff
    /\ clean = CleanOff
    /\ emb = EmbedOff
    /\ ing = [IngestOff EXCEPT !.pc = "idle"]

\* A caller awaits generate_embeddings_batch(chunks, batch_size).
EmbedCall ==
    \E n \in 0..MaxChunks, b \in 1..MaxBatchSize, dim \in 1..(PineconeDimension + 1),
       k \in {"ok", "chat_raises", "embedding_raises"} :
        LET r == EmbedBegin(svc, settings, [kernel |-> k],
                            [j \in 1..n |-> Chunk("doc_x", j - 1, n)], b, dim)
        IN /\ emb.pc = "idle"
           /\ emb' = r.run
           /\ svc' = r.svc
           /\ UNCHANGED <<ing, split, clean, settings, search_out, tool_out>>
           /\ UNCHANGED <<agentVars, queryVars>>

\* The embedding call of the current batch returns its vectors.
EmbedBatchOk ==
    /\ emb.pc = "awaiting"
    /\ ing.pc = "off"
    /\ ServiceEmbedBatch(svc, TRUE) = NoError
    /\ emb' = EmbedResume(emb, NoError)
    /\ UNCHANGED <<ing, split, clean, searchVars, agentVars, queryVars>>

\* The embedding call of the current batch raises.
EmbedBatchRaises ==
    /\ emb.pc = "awaiting"
    /\ ing.pc = "off"
    /\ emb' = EmbedResume(emb, ServiceEmbedBatch(svc, FALSE))
    /\ UNCHANGED <<ing, split, clean, searchVars, agentVars, queryVars>>

NextEmbed ==
    \/ EmbedCall
    \/ EmbedBatchOk
    \/ EmbedBatchRaises

\* ingest_documents from its call to the first embedding call, or to its
\* return when it gets none.
IngestStart ==
    \E env \in StoreBehaviours, counts \in CountLists(MaxDocs), seed \in Seeds,
       load \in {"ok", "raises"}, dim \in 1..(PineconeDimension + 1) :
        LET s1 == EnsureClient(svc, settings, env)
            g0 == [ing EXCEPT !.mongo_connected = (env.mongo = "connected"),
                              !.counts = counts]
            chunks == AllChunks(seed, counts)
            g1 == [g0 EXCEPT !.all_chunks = chunks]
            b == EmbedBegin(s1, settings, env, chunks, DefaultBatchSize, dim)
            fin == StoreAndUpload(g1, b.svc, settings, env, b.run.chunks_with_embeddings)
        IN /\ ing.pc = "idle"
           /\ ing.run > 1 => counts = ing.counts
           /\ UNCHANGED <<split, clean, settings, search_out, tool_out>>
           /\ UNCHANGED <<agentVars, queryVars>>
           /\ IF load = "raises"
              THEN /\ ing' = [g0 EXCEPT !.pc = "done", !.outcome = "load error"]
                   /\ svc' = s1
                   /\ emb' = emb
              ELSE IF counts = <<>>
              THEN /\ ing' = [g0 EXCEPT !.pc = "done", !.outcome = "no documents"]
                   /\ svc' = s1
                   /\ emb' = emb
              ELSE /\ emb' = b.run
                   /\ IF b.run.pc = "raised"
                      THEN ing' = AbortOnEmbeddingError(g1) /\ svc' = b.svc
                      ELSE IF b.run.pc = "returned"
                      THEN ing' = fin.run /\ svc' = fin.svc
                      ELSE ing' = [g1 EXCEPT !.pc = "embedding"] /\ svc' = b.svc

\* ingest_documents from the completion of an embedding call on.
IngestResume(raised, env) ==
    LET e1 == EmbedResume(emb, raised)
        fin == StoreAndUpload(ing, svc, settings, env, e1.chunks_with_embeddings)
    IN /\ emb' = e1
       /\ IF e1.pc = "returned"
          THEN ing' = fin.run /\ svc' = fin.svc
          ELSE UNCHANGED <<ing, svc>>
       /\ UNCHANGED <<split, clean, settings, search_out, tool_out>>
       /\ UNCHANGED <<agentVars, queryVars>>

IngestBatchOk ==
    \E env \in StoreBehaviours :
        /\ ing.pc = "embedding"
        /\ emb.pc = "awaiting"
        /\ ServiceEmbedBatch(svc, TRUE) = NoError
        /\ IngestResume(NoError, env)

IngestBatchRaises ==
    \E env \in StoreBehaviours :
        /\ ing.pc = "embedding"
        /\ emb.pc = "awaiting"
        /\ IngestResume(ServiceEmbedBatch(svc, FALSE), env)

\* The script is run again, in a new process, over the unchanged directory.
IngestRerun ==
    /\ ing.pc = "done"
    /\ ing.run < MaxRuns
    /\ ing' = [IngestOff EXCEPT !.pc = "idle",
                                !.run = ing.run + 1,
                                !.counts = ing.counts,
                                !.previous = [outcome |-> ing.outcome,
                                              all_chunks |-> ing.all_chunks]]
    /\ svc' = ServicesInit
    /\ emb' = EmbedOff
    /\ UNCHANGED <<split, clean, settings, search_out, tool_out>>
    /\ UNCHANGED <<agentVars, queryVars>>

NextIngest ==
    \/ IngestStart
    \/ IngestBatchOk
    \/ IngestBatchRaises
    \/ IngestRerun


(***************************************************************************)
(* MemoryService                                                           *)
(***************************************************************************)
\* create_session: a new session starts with an empty list.
CreateSession(conv, session_id) ==
    IF session_id \in DOMAIN conv THEN conv ELSE conv @@ (session_id :> <<>>)

\* add_message putting the message in front of the session's list.
AddMessageFront(conv, session_id, role, content) ==
    LET c == CreateSession(conv, session_id)
    IN [c EXCEPT ![session_id] = <<Message(role, content)>> \o @]

\* add_message appending the message to the list of every session.
AddMessageShared(conv, session_id, role, content) ==
    LET c == CreateSession(conv, session_id)
    IN [s \in DOMAIN c |-> Append(c[s], Message(role, content))]

\* add_message: the message is appended to the session's list.
AddMessage(conv, session_id, role, content) ==
    LET c == CreateSession(conv, session_id)
    IN [c EXCEPT ![session_id] = Append(@, Message(role, content))]

\* messages[-limit:].
LastMessages(messages, limit) ==
    SubSeq(messages, Len(messages) - Min(limit, Len(messages)) + 1, Len(messages))

\* get_conversation: a falsy limit (None, written 0 here, or 0) returns the
\* whole list.
GetConversation(conv, session_id, limit) ==
    LET messages == IF session_id \in DOMAIN conv THEN conv[session_id] ELSE <<>>
    IN IF limit = 0 THEN messages ELSE LastMessages(messages, limit)

\* str.upper() of a role.
Upper(role) ==
    CASE role = "user" -> "USER"
      [] role = "assistant" -> "ASSISTANT"
      [] role = "system" -> "SYSTEM"
      [] OTHER -> role

\* "\n\n".join(lines).
RECURSIVE JoinLines(_)
JoinLines(lines) ==
    IF lines = <<>> THEN ""
    ELSE IF Len(lines) = 1 THEN lines[1]
    ELSE lines[1] \o "\n\n" \o JoinLines(Tail(lines))

\* get_formatted_history.
GetFormattedHistory(conv, session_id, limit) ==
    LET messages == GetConversation(conv, session_id, limit)
    IN JoinLines([k \in 1..Len(messages) |->
                      Upper(messages[k].role) \o ": " \o messages[k].content])

\* get_context_for_llm: role and content of the messages get_conversation
\* returns for limit = max_messages.
GetContextForLlm(conv, session_id, max_messages) ==
    LET messages == GetConversation(conv, session_id, max_messages)
    IN [k \in 1..Len(messages) |->
            [role |-> messages[k].role, content |-> messages[k].content]]

\* Direct reads of the service: the last call and what it returned. A call
\* without a limit has limited = FALSE.
MemoryOff ==
    [pc |-> "off", op |-> None, session_id |-> None, limited |-> FALSE, limit |-> 0,
     result |-> <<>>]

\* A session holds at most MaxMessages messages, and a caller asks for at
\* most MaxLimit of them.
MaxMessages == 3

MaxLimit == 4

\* max_messages when get_context_for_llm is called without it.
DefaultMaxMessages == 10

\* The sessions callers write to, and those they read.
MemorySessions == {"s1", "s2"}

ReadSessions == MemorySessions \cup {"s3"}

InitMemory ==
    /\ conversations = <<>>
    /\ memory_calls = [MemoryOff EXCEPT !.pc = "idle"]

\* A caller adds a message to a session.
MemoryAddMessage ==
    \E s \in MemorySessions, role \in {"user", "assistant"} :
        LET n == Len(GetConversation(conversations, s, 0))
        IN /\ memory_calls.pc # "off"
           /\ n < MaxMessages
           /\ conversations' =
                  AddMessage(conversations, s, role, "message " \o ToString(n + 1))
           /\ UNCHANGED <<reqs, query_status_store, health, status_calls, memory_calls>>
           /\ UNCHANGED <<searchVars, agentVars, ingestVars>>

\* A caller reads a session with get_conversation, with or without a limit.
MemoryGetConversation ==
    \E s \in ReadSessions, limited \in BOOLEAN, n \in 0..MaxLimit :
        /\ memory_calls.pc # "off"
        /\ ~limited => n = 0
        /\ memory_calls' =
               [pc |-> "returned", op |-> "get_conversation", session_id |-> s,
                limited |-> limited, limit |-> n,
                result |-> GetConversation(conversations, s, n)]
        /\ UNCHANGED <<reqs, query_status_store, conversations, health, status_calls>>
        /\ UNCHANGED <<searchVars, agentVars, ingestVars>>

\* A caller reads a session with get_context_for_llm, with or without
\* max_messages.
MemoryGetContextForLlm ==
    \E s \in ReadSessions, limited \in BOOLEAN, n \in 0..MaxLimit :
        /\ memory_calls.pc # "off"
        /\ ~limited => n = 0
        /\ memory_calls' =
               [pc |-> "returned", op |-> "get_context_for_llm", session_id |-> s,
                limited |-> limited, limit |-> n,
                result |-> GetContextForLlm(conversations, s,
                                            IF limited THEN n ELSE DefaultMaxMessages)]
        /\ UNCHANGED <<reqs, query_status_store, conversations, health, status_calls>>
        /\ UNCHANGED <<searchVars, agentVars, ingestVars>>

NextMemory ==
    \/ MemoryAddMessage
    \/ MemoryGetConversation
    \/ MemoryGetContextForLlm

(***************************************************************************)
(* api/routes.py: GET /health                                              *)
(***************************************************************************)
\* settings.app_version.
AppVersion == "0.1.0"

\* The handler is called at most MaxHealthCalls times.
MaxHealthCalls == 3

NoHealthResponse ==
    [status_code |-> 0, status |-> None, version |-> None,
     checks |-> [api |-> None, azure_openai |-> None, pinecone |-> None,
                 pinecone_vectors |-> None, mongodb |-> None, semantic_kernel |-> None],
     errors |-> None]

HealthOff == [pc |-> "off", calls |-> 0, response |-> NoHealthResponse]

\* How the backends behave during one call of the handler.
HealthBehaviours ==
    [pinecone : {"ok", "client_raises", "index_raises"},
     kernel : {"ok", "chat_raises", "embedding_raises"},
     stats : {"ok", "raises"}]              \* index.describe_index_stats()

\* The handler: the services afterwards and the response. mongodb_client
\* is never connected in the served process, so _client is None.
Health(s, cfg, env) ==
    LET az == IF cfg.azure_openai THEN LLMServiceInitialize(s, cfg, env)
              ELSE [svc |-> s, raised |-> NoError]
        azure_openai == IF ~cfg.azure_openai THEN "not_configured"
                        ELSE IF az.raised = NoError THEN "ok" ELSE "error"
        e1 == IF ~cfg.azure_openai THEN <<"Azure OpenAI: credentials not configured">>
              ELSE IF az.raised = NoError THEN <<>>
              ELSE <<"Azure OpenAI: " \o az.raised>>
        pi == IF cfg.pinecone_api_key THEN GetIndex(az.svc, cfg, env)
              ELSE [svc |-> az.svc, index |-> None]
        pinecone == IF ~cfg.pinecone_api_key THEN "not_configured"
                    ELSE IF pi.index # None /\ env.stats = "ok" THEN "ok" ELSE "error"
        e2 == IF ~cfg.pinecone_api_key THEN <<"Pinecone: API key not configured">>
              ELSE IF pi.index = None THEN <<"Pinecone: index not available">>
              ELSE IF env.stats = "raises" THEN <<"Pinecone: describe_index_stats failed">>
              ELSE <<>>
        k == GetKernel(pi.svc, cfg, env)
        semantic_kernel == IF k.raised = NoError /\ k.svc.kernel # None THEN "ok" ELSE "error"
        e3 == IF k.raised # NoError THEN <<"Semantic Kernel: " \o k.raised>>
              ELSE IF k.svc.kernel = None THEN <<"Semantic Kernel: not initialized">>
              ELSE <<>>
        errors == e1 \o e2 \o e3
    IN [svc |-> k.svc,
        response |->
            [status_code |-> 200,
             status |-> IF errors = <<>> THEN "healthy" ELSE "degraded",
             version |-> AppVersion,
             checks |-> [api |-> "ok",
                         azure_openai |-> azure_openai,
                         pinecone |-> pinecone,
                         pinecone_vectors |-> IF pinecone = "ok" THEN "total_vector_count"
                                              ELSE None,
                         mongodb |-> "not_configured",
                         semantic_kernel |-> semantic_kernel],
             errors |-> IF errors = <<>> THEN None ELSE errors]]

(***************************************************************************)
(* api/routes.py: POST /query                                              *)
(***************************************************************************)
\* limit of the history the route puts into the agent's system prompt.
HistoryLimit == 5

Requests == 1..NumRequests

\* str(uuid.uuid4()): a new value for every request.
QueryId(r) == "query-" \o ToString(r)

NewSessionId(r) == "session-" \o ToString(r)

\* req.query: every request asks in its own words.
RequestQuery(r) == UserQuery \o " #" \o ToString(r)

\* The top_k values a client sends: the default of QueryRequest.
RequestTopKs == {5}

\* The session_id values a client sends: none, or a session it names.
RequestSessionIds == {None, "s1"}

\* The system prompt the route builds around the formatted history.
AgentSystemPrompt(conversation_history) ==
    "HR assistant with tools. Previous conversation: " \o
    (IF conversation_history # "" THEN conversation_history ELSE "No previous context")

NoResponse ==
    [status_code |-> 0, answer |-> None, sources |-> <<>>, session_id |-> None,
     agent_plan |-> None, tool_calls |-> <<>>, iterations |-> 0, detail |-> None]

\* GET and DELETE /status/{query_id}: the last call and its response.
NoStatusResponse == [status_code |-> 0, detail |-> None, data |-> None]

StatusOff == [pc |-> "off", op |-> None, query_id |-> None, response |-> NoStatusResponse]

RequestIdle ==
    [pc |-> "idle", query_id |-> None, session_id |-> None, top_k |-> 0,
     agent |-> AgentIdle, response |-> NoResponse]

\* The dict stored under a new query_id.
StartedStatus(query_id, query) ==
    [query_id |-> query_id, status |-> "started", query |-> query, steps |-> <<>>,
     current_step |-> "initializing", agent_plan |-> None, tool_calls |-> <<>>,
     iterations |-> 0, retrieved_documents |-> <<>>, answer |-> None,
     sources_count |-> 0, error |-> None, completed_at |-> None, failed_at |-> None,
     duration_seconds |-> None]

\* datetime.utcnow().isoformat(), and the seconds between two of them.
UtcNow == "utcnow"

DurationSeconds == "seconds"

\* str(KeyError(query_id)): query_status_store[query_id] of a cleared record.
KeyError(query_id) == "'" \o query_id \o "'"

\* update_step keeping only the newest step.
UpdateStepReplace(store, query_id, step_name, status) ==
    [store EXCEPT ![query_id].current_step = step_name,
                  ![query_id].steps = <<[step |-> step_name, status |-> status]>>]

\* update_step.
UpdateStep(store, query_id, step_name, status) ==
    [store EXCEPT ![query_id].current_step = step_name,
                  ![query_id].steps = Append(@, [step |-> step_name, status |-> status])]

\* One entry of retrieved_docs, from an entry of the search result.
DocInfo(result) ==
    [filename |-> IF result.metadata.filename = None THEN "Unknown"
                  ELSE result.metadata.filename,
     score |-> result.score,
     chunk_id |-> result.id,
     text_preview |-> IF Truthy(result.metadata.text)
                      THEN result.metadata.text \o "..." ELSE ""]

\* One entry of sources.
Source(doc_info) == [filename |-> doc_info.filename, score |-> doc_info.score]

\* The except clause of the route: the status becomes "error" and the
\* request ends in HTTP 500.
\* When the record was cleared, the clause itself raises KeyError and the
\* request ends in the server's plain HTTP 500, without a detail.
QueryExcept(w, r, e) ==
    LET q == w.reqs[r].query_id
        st == [w.store EXCEPT ![q].status = "error", ![q].error = e,
                              ![q].failed_at = UtcNow]
    IN IF q \notin DOMAIN w.store
       THEN [w EXCEPT !.reqs[r].pc = "done",
                      !.reqs[r].response = [NoResponse EXCEPT !.status_code = 500]]
       ELSE [w EXCEPT !.store = UpdateStep(st, q, st[q].current_step, "failed"),
                      !.reqs[r].pc = "done",
                      !.reqs[r].response =
                          [NoResponse EXCEPT !.status_code = 500,
                                             !.detail = "Error processing query: " \o e]]

\* The route after search returned: sources, the assistant turn, the final
\* status and the QueryResponse.
QueryFinish(w, r, search_results) ==
    LET q == w.reqs[r].query_id
        res == w.reqs[r].agent.result
        docs == [k \in 1..Len(search_results) |-> DocInfo(search_results[k])]
        sources == [k \in 1..Len(docs) |-> Source(docs[k])]
        st1 == UpdateStep([w.store EXCEPT ![q].retrieved_documents = docs],
                          q, "source_extraction", "completed")
        st2 == UpdateStep(st1, q, "finalization", "in_progress")
        st3 == [st2 EXCEPT ![q].status = "completed",
                           ![q].current_step = "completed",
                           ![q].completed_at = UtcNow,
                           ![q].answer = res.answer,
                           ![q].sources_count = Len(sources)]
    IN IF q \notin DOMAIN w.store THEN QueryExcept(w, r, KeyError(q))
       ELSE
       [w EXCEPT !.store = UpdateStep(st3, q, "finalization", "completed"),
                 !.conv = AddMessage(w.conv, w.reqs[r].session_id, "assistant", res.answer),
                 !.reqs[r].pc = "done",
                 !.reqs[r].response =
                     [NoResponse EXCEPT !.status_code = 200,
                                        !.answer = res.answer,
                                        !.sources = sources,
                                        !.session_id = w.reqs[r].session_id,
                                        !.agent_plan = res.agent_plan,
                                        !.tool_calls = res.tool_calls,
                                        !.iterations = res.iterations]]

\* search up to its embedding request: the services afterwards, and whether
\* the request is made (the index is there and so is the embedding service).
SearchPrepare(s, cfg, env) ==
    LET s1 == IF s.vs_index = None THEN VectorStoreInitialize(s, cfg, env) ELSE s
        i == IF s1.embedding_inner = None
             THEN EmbeddingServiceInitialize(s1, cfg, env)
             ELSE [svc |-> s1, raised |-> NoError]
    IN [svc |-> i.svc,
        awaits |-> s1.vs_index # None /\ i.raised = NoError
                   /\ i.svc.embedding_inner # None]

\* The route after search returned or raised.
QueryAfterSearch(w, r, sr) ==
    IF sr.raised # NoError THEN QueryExcept([w EXCEPT !.svc = sr.svc], r, sr.raised)
    ELSE QueryFinish([w EXCEPT !.svc = sr.svc], r, sr.matches)

\* The route after agent_execute returned: the trace is stored and the
\* sources are searched for.
QueryAfterAgent(w, r, a, cfg, env) ==
    LET q == w.reqs[r].query_id
        st1 == [w.store EXCEPT ![q].agent_plan = a.result.agent_plan,
                               ![q].tool_calls = a.result.tool_calls,
                               ![q].iterations = a.result.iterations]
        st2 == UpdateStep(st1, q, "agent_planning", "completed")
        st3 == UpdateStep(st2, q, "source_extraction", "in_progress")
        w1 == [w EXCEPT !.store = st3, !.reqs[r].agent = a]
        p == SearchPrepare(w.svc, cfg, env)
    IN IF q \notin DOMAIN w.store
       THEN QueryExcept([w EXCEPT !.reqs[r].agent = a], r, KeyError(q))
       ELSE IF p.awaits
       THEN [w1 EXCEPT !.svc = p.svc, !.reqs[r].pc = "searching"]
       ELSE QueryAfterSearch(w1, r, Search(w.svc, cfg, env, w.reqs[r].top_k))

\* agent_execute when the chat service is None: every chat call raises
\* AttributeError at once.
RECURSIVE RunWithoutService(_, _)
RunWithoutService(a, max) ==
    IF a.pc = "returned" THEN a
    ELSE RunWithoutService(
             OnIterationError(a, "'NoneType' object has no attribute 'get_chat_message_contents'",
                              max),
             max)

\* The route from the request to the agent's first chat call, or further
\* when nothing is awaited.
QueryBegin(w, r, session_id, top_k, cfg, env) ==
    LET q == QueryId(r)
        st0 == w.store @@ (q :> StartedStatus(q, RequestQuery(r)))
        st1 == UpdateStep(st0, q, "session_initialization", "in_progress")
        sid == IF Truthy(session_id) THEN session_id ELSE NewSessionId(r)
        c == AddMessage(CreateSession(w.conv, sid), sid, "user", RequestQuery(r))
        st2 == UpdateStep(st1, q, "session_initialization", "completed")
        st3 == UpdateStep(st2, q, "agent_planning", "in_progress")
        history == GetFormattedHistory(c, sid, HistoryLimit)
        i == LLMServiceInitialize(w.svc, cfg, env)
        w1 == [reqs |-> [w.reqs EXCEPT ![r] = [RequestIdle EXCEPT !.pc = "agent",
                                                                   !.query_id = q,
                                                                   !.session_id = sid,
                                                                   !.top_k = top_k]],
               store |-> st3, conv |-> c, svc |-> i.svc]
        a == AgentBegin(RequestQuery(r), AgentSystemPrompt(history), QueryMaxIterations)
    IN IF i.raised # NoError THEN QueryExcept(w1, r, i.raised)
       ELSE IF i.svc.llm_chat_service = None
       THEN QueryAfterAgent(w1, r, RunWithoutService(a, QueryMaxIterations), cfg, env)
       ELSE [w1 EXCEPT !.reqs[r].agent = a]

\* The process as the route sees it.
World == [reqs |-> reqs, store |-> query_status_store, conv |-> conversations, svc |-> svc]

\* The replies of the chat backend to a call made for the route.
QueryChatReplies ==
    {[kind |-> "error", error |-> "timeout", content |-> None,
      function_call |-> NoFunctionCall],
     EmptyResponse,
     [kind |-> "message", error |-> None, content |-> None,
      function_call |-> [name |-> "search_policy_documents", arguments |-> "args_a"]],
     [kind |-> "message", error |-> None, content |-> "Leave is 20 days",
      function_call |-> NoFunctionCall],
     [kind |-> "message", error |-> None, content |-> None,
      function_call |-> NoFunctionCall]}

\* The backend behaviours that matter while the services initialise, and
\* those that matter once an embedding request has been made.
InitBehaviours ==
    [pinecone : {"ok", "client_raises", "index_raises"},
     kernel : {"ok", "chat_raises", "embedding_raises"},
     search : {"ok"},
     n_matches : {0}]

SearchBehaviours ==
    [pinecone : {"ok"},
     kernel : {"ok"},
     search : {"ok", "embed_raises", "query_raises"},
     n_matches : 0..MaxMatches]

\* main.py lifespan: the index and the kernel are initialised at startup,
\* and the application does not start when that raises.
Lifespan(s, cfg, env) == InitializeKernel(EnsureClient(s, cfg, env), cfg, env)

\* The application is served after a successful startup, or called without
\* its lifespan (as by a test client that is not entered).
InitQuery ==
    /\ settings \in Settings
    /\ \E env \in InitBehaviours, started \in BOOLEAN :
           /\ started => Lifespan(ServicesInit, settings, env).raised = NoError
           /\ svc = IF started THEN Lifespan(ServicesInit, settings, env).svc
                    ELSE ServicesInit
    /\ search_out = [called |-> FALSE, out |-> NoSearch]
    /\ tool_out = NoToolOutput
    /\ reqs = [r \in Requests |-> RequestIdle]
    /\ query_status_store = <<>>
    /\ conversations = <<>>
    /\ health = HealthOff
    /\ status_calls = StatusOff
    /\ memory_calls = MemoryOff

\* A client posts a query; the requests are numbered as they arrive.
QueryStart ==
    \E r \in Requests, session_id \in RequestSessionIds, top_k \in RequestTopKs,
       env \in InitBehaviours :
        LET w == QueryBegin(World, r, session_id, top_k, settings, env)
        IN /\ reqs[r].pc = "idle"
           /\ \A p \in Requests : p < r => reqs[p].pc # "idle"
           /\ reqs' = w.reqs
           /\ query_status_store' = w.store
           /\ conversations' = w.conv
           /\ svc' = w.svc
           /\ UNCHANGED <<health, status_calls, memory_calls, settings, search_out, tool_out>>
           /\ UNCHANGED <<agentVars, ingestVars>>

\* The chat call of a request's agent completes.
QueryChatResponds ==
    \E r \in Requests, reply \in QueryChatReplies, env \in InitBehaviours :
        LET a == AgentResume(reqs[r].agent, reply, QueryMaxIterations)
            w == IF a.pc = "returned" THEN QueryAfterAgent(World, r, a, settings, env)
                 ELSE [World EXCEPT !.reqs[r].agent = a]
        IN /\ reqs[r].pc = "agent"
           /\ reqs' = w.reqs
           /\ query_status_store' = w.store
           /\ conversations' = w.conv
           /\ svc' = w.svc
           /\ UNCHANGED <<health, status_calls, memory_calls, settings, search_out, tool_out>>
           /\ UNCHANGED <<agentVars, ingestVars>>

\* The embedding request of a request's source search completes.
QuerySearchResponds ==
    \E r \in Requests, env \in SearchBehaviours :
        LET w == QueryAfterSearch(World, r, Search(svc, settings, env, reqs[r].top_k))
        IN /\ reqs[r].pc = "searching"
           /\ reqs' = w.reqs
           /\ query_status_store' = w.store
           /\ conversations' = w.conv
           /\ svc' = w.svc
           /\ UNCHANGED <<health, status_calls, memory_calls, settings, search_out, tool_out>>
           /\ UNCHANGED <<agentVars, ingestVars>>

NextQuery ==
    \/ QueryStart
    \/ QueryChatResponds
    \/ QuerySearchResponds

\* get_query_status: 404 for an unknown id; otherwise the stored dict itself,
\* given its duration once it has a completed_at.
GetQueryStatus(store, query_id) ==
    IF query_id \notin DOMAIN store
    THEN [store |-> store,
          response |-> [NoStatusResponse EXCEPT
                            !.status_code = 404,
                            !.detail = "Query ID '" \o query_id \o
                                       "' not found. It may have expired or never existed."]]
    ELSE LET st == IF Truthy(store[query_id].completed_at)
                   THEN [store EXCEPT ![query_id].duration_seconds = DurationSeconds]
                   ELSE store
         IN [store |-> st,
             response |-> [NoStatusResponse EXCEPT !.status_code = 200,
                                                   !.data = st[query_id]]]

\* clear_query_status: 404 for an unknown id; otherwise the record is deleted.
ClearQueryStatus(store, query_id) ==
    IF query_id \notin DOMAIN store
    THEN [store |-> store,
          response |-> [NoStatusResponse EXCEPT
                            !.status_code = 404,
                            !.detail = "Query ID '" \o query_id \o "' not found"]]
    ELSE [store |-> [q \in DOMAIN store \ {query_id} |-> store[q]],
          response |-> [NoStatusResponse EXCEPT !.status_code = 200]]

\* The application of InitQuery, with one client that posts a query and
\* clients that call /status with its query id or another.
InitStatus ==
    /\ settings \in Settings
    /\ \E env \in InitBehaviours, started \in BOOLEAN :
           /\ started => Lifespan(ServicesInit, settings, env).raised = NoError
           /\ svc = IF started THEN Lifespan(ServicesInit, settings, env).svc
                    ELSE ServicesInit
    /\ search_out = [called |-> FALSE, out |-> NoSearch]
    /\ tool_out = NoToolOutput
    /\ reqs = [r \in Requests |-> IF r = 1 THEN RequestIdle
                                   ELSE [RequestIdle EXCEPT !.pc = "off"]]
    /\ query_status_store = <<>>
    /\ conversations = <<>>
    /\ health = HealthOff
    /\ status_calls = [StatusOff EXCEPT !.pc = "idle"]
    /\ memory_calls = MemoryOff

\* A client gets /status/{query_id} of a query id it was given or made up.
StatusGet ==
    \E r \in Requests :
        LET g == GetQueryStatus(query_status_store, QueryId(r))
        IN /\ status_calls.pc # "off"
           /\ query_status_store' = g.store
           /\ status_calls' = [pc |-> "returned", op |-> "get", query_id |-> QueryId(r),
                               response |-> g.response]
           /\ UNCHANGED <<reqs, conversations, health, memory_calls>>
           /\ UNCHANGED <<searchVars, agentVars, ingestVars>>

\* A client deletes /status/{query_id}.
StatusDelete ==
    \E r \in Requests :
        LET c == ClearQueryStatus(query_status_store, QueryId(r))
        IN /\ status_calls.pc # "off"
           /\ query_status_store' = c.store
           /\ status_calls' = [pc |-> "returned", op |-> "delete", query_id |-> QueryId(r),
                               response |-> c.response]
           /\ UNCHANGED <<reqs, conversations, health, memory_calls>>
           /\ UNCHANGED <<searchVars, agentVars, ingestVars>>

NextStatus ==
    \/ QueryStart
    \/ QueryChatResponds
    \/ QuerySearchResponds
    \/ StatusGet
    \/ StatusDelete

\* The application is served as for POST /query; no query is in progress.
InitHealth ==
    /\ settings \in Settings
    /\ \E env \in InitBehaviours, started \in BOOLEAN :
           /\ started => Lifespan(ServicesInit, settings, env).raised = NoError
           /\ svc = IF started THEN Lifespan(ServicesInit, settings, env).svc
                    ELSE ServicesInit
    /\ search_out = [called |-> FALSE, out |-> NoSearch]
    /\ tool_out = NoToolOutput
    /\ reqs = [r \in Requests |-> [RequestIdle EXCEPT !.pc = "off"]]
    /\ query_status_store = <<>>
    /\ conversations = <<>>
    /\ health = [HealthOff EXCEPT !.pc = "idle"]
    /\ status_calls = StatusOff
    /\ memory_calls = MemoryOff

\* A client gets /health; the handler runs to its response.
HealthCall ==
    /\ health.pc \in {"idle", "returned"}
    /\ health.calls < MaxHealthCalls
    /\ \E env \in HealthBehaviours :
           LET h == Health(svc, settings, env)
           IN /\ svc' = h.svc
              /\ health' = [pc |-> "returned", calls |-> health.calls + 1,
                            response |-> h.response]
    /\ UNCHANGED <<reqs, query_status_store, conversations, status_calls, memory_calls>>
    /\ UNCHANGED <<settings, search_out, tool_out>>
    /\ UNCHANGED <<agentVars, ingestVars>>

NextHealth == HealthCall

(***************************************************************************)
(* A direct call of agent_execute                                          *)
(***************************************************************************)
InitAgent ==
    /\ max_iterations \in 0..MaxIterations
    /\ agent = AgentIdle
    /\ responses = <<>>

AgentCall ==
    /\ agent.pc = "idle"
    /\ agent' = AgentBegin(UserQuery, SystemPrompt, max_iterations)
    /\ UNCHANGED <<max_iterations, responses>>
    /\ UNCHANGED <<searchVars, ingestVars, queryVars>>

\* The pending chat call completes with reply r and agent_execute runs on.
Received(r) ==
    /\ agent' = AgentResume(agent, r, max_iterations)
    /\ responses' = Append(responses, r)
    /\ UNCHANGED max_iterations
    /\ UNCHANGED <<searchVars, ingestVars, queryVars>>

ChatRaises ==
    \E r \in ErrorResponses : agent.pc = "awaiting" /\ Received(r)

ChatReturnsNothing ==
    agent.pc = "awaiting" /\ Received(EmptyResponse)

ChatRequestsTool ==
    \E r \in ToolResponses : agent.pc = "awaiting" /\ Received(r)

ChatReturnsContent ==
    \E r \in ContentResponses : agent.pc = "awaiting" /\ Received(r)

ChatReturnsBlank ==
    \E r \in BlankResponses : agent.pc = "awaiting" /\ Received(r)

NextAgent ==
    \/ AgentCall
    \/ ChatRaises
    \/ ChatReturnsNothing
    \/ ChatRequestsTool
    \/ ChatReturnsContent
    \/ ChatReturnsBlank

\* The subsystems a behaviour does not exercise stay as constructed.
AgentOff ==
    /\ max_iterations = 0
    /\ agent = [AgentIdle EXCEPT !.pc = "off"]
    /\ responses = <<>>

ServicesOff ==
    /\ settings = [pinecone_api_key |-> FALSE, azure_openai |-> FALSE,
                   embedding_deployment |-> FALSE]
    /\ svc = ServicesInit
    /\ search_out = [called |-> FALSE, out |-> NoSearch]
    /\ tool_out = NoToolOutput

IngestOffAll ==
    /\ emb = EmbedOff
    /\ ing = IngestOff
    /\ split = SplitOff
    /\ clean = CleanOff

QueryOff ==
    /\ reqs = [r \in Requests |-> [RequestIdle EXCEPT !.pc = "off"]]
    /\ query_status_store = <<>>
    /\ conversations = <<>>
    /\ health = HealthOff
    /\ status_calls = StatusOff
    /\ memory_calls = MemoryOff

\* The program before a direct call of agent_execute.
StartAgent == InitAgent /\ ServicesOff /\ IngestOffAll /\ QueryOff

\* The program before calls of search and of the RetrievalPlugin tools.
StartSearch == InitServices /\ AgentOff /\ IngestOffAll /\ QueryOff

\* The script before a direct call of generate_embeddings_batch.
StartEmbed == InitEmbed /\ AgentOff /\ QueryOff

\* The splitter before a call of split_text.
StartSplit ==
    InitSplit /\ emb = EmbedOff /\ ing = IngestOff /\ AgentOff /\ ServicesOff /\ QueryOff

\* The program before a call of TextCleaner.clean.
StartClean ==
    /\ InitClean
    /\ split = SplitOff
    /\ emb = EmbedOff
    /\ ing = IngestOff
    /\ AgentOff
    /\ ServicesOff
    /\ QueryOff

\* The script before a run of ingest_documents.
StartIngest == InitIngest /\ AgentOff /\ QueryOff

\* The application before its first POST /query request.
StartQuery == InitQuery /\ AgentOff /\ IngestOffAll

StartHealth == InitHealth /\ AgentOff /\ IngestOffAll

\* The service before direct calls of its methods.
StartMemory ==
    /\ InitMemory
    /\ reqs = [r \in Requests |-> [RequestIdle EXCEPT !.pc = "off"]]
    /\ query_status_store = <<>>
    /\ health = HealthOff
    /\ status_calls = StatusOff
    /\ AgentOff
    /\ ServicesOff
    /\ IngestOffAll

\* The application before its first request to /query or /status.
StartStatus == InitStatus /\ AgentOff /\ IngestOffAll

\* A direct call of agent_execute against an arbitrary chat backend.
SpecAgent == StartAgent /\ [][NextAgent]_vars

\* Calls of VectorStoreService.search and of the RetrievalPlugin tools.
SpecSearch == StartSearch /\ [][NextSearch]_vars

\* A direct call of the script's generate_embeddings_batch.
SpecEmbed == StartEmbed /\ [][NextEmbed]_vars

\* A call of TextSplitter.split_text on an arbitrary text.
SpecSplit == StartSplit /\ [][NextSplit]_vars

\* A run of the script's ingest_documents.
SpecIngest == StartIngest /\ [][NextIngest]_vars

\* POST /query requests against arbitrary backends.
SpecQuery == StartQuery /\ [][NextQuery]_vars

\* Calls of TextCleaner.clean.
SpecClean == StartClean /\ [][NextClean]_vars

\* Direct calls of MemoryService.
SpecMemory == StartMemory /\ [][NextMemory]_vars

\* A POST /query request with clients that read and clear /status records.
SpecStatus == StartStatus /\ [][NextStatus]_vars

\* Calls of GET /health against arbitrary backends.
SpecHealth == StartHealth /\ [][NextHealth]_vars

Init ==
    \/ StartAgent
    \/ StartSearch
    \/ StartEmbed
    \/ StartIngest
    \/ StartSplit
    \/ StartQuery
    \/ StartHealth
    \/ StartClean
    \/ StartStatus
    \/ StartMemory

Next ==
    \/ NextAgent
    \/ NextSearch
    \/ NextEmbed
    \/ NextIngest
    \/ NextSplit
    \/ NextQuery
    \/ NextHealth
    \/ NextClean
    \/ NextStatus
    \/ NextMemory

Spec == Init /\ [][Next]_vars

(***************************************************************************)
(* Properties of the agent loop, checked under SpecAgent                   *)
(***************************************************************************)
Result == agent.result

Returned == agent.pc = "returned"

C2_TraceComplete ==
    Returned =>
        /\ Len(Result.tool_calls) <= Result.iterations
        /\ \A i \in 1..Len(Result.tool_calls) :
               /\ 1 <= Result.tool_calls[i].iteration
               /\ Result.tool_calls[i].iteration <= Result.iterations
        /\ \A i, j \in 1..Len(Result.tool_calls) :
               i < j => Result.tool_calls[i].iteration <= Result.tool_calls[j].iteration

C2_Witness ==
    /\ Returned
    /\ Len(Result.tool_calls) >= 2
    /\ Result.tool_calls[Len(Result.tool_calls)].iteration = Result.iterations

\* The replies are k tool requests followed by one content reply.
ToolsThenContent ==
    /\ Len(responses) >= 1
    /\ IsContent(responses[Len(responses)])
    /\ \A i \in 1..(Len(responses) - 1) : IsToolRequest(responses[i])

\* C3: when the model asks for a tool in each of the first k cycles and
\* returns content in cycle k+1, the returned dict has iterations = k+1 and
\* tool_calls holds exactly the k requested calls, in the order they were
\* made, with iteration values 1..k.
C3_ToolsThenAnswer ==
    ToolsThenContent =>
        /\ Returned
        /\ Result.iterations = Len(responses)
        /\ Len(Result.tool_calls) = Len(responses) - 1
        /\ \A i \in 1..(Len(responses) - 1) :
               Result.tool_calls[i] =
                   [tool_name |-> responses[i].function_call.name,
                    arguments |-> responses[i].function_call.arguments,
                    iteration |-> i]
        /\ Result.answer = responses[Len(responses)].content

C3_Witness ==
    /\ ToolsThenContent
    /\ Len(responses) = 3
    /\ responses[1].function_call.name = "search_policy_documents"
    /\ responses[2].function_call.name = "get_document_details"
    /\ Result.iterations = 3

\* C4: a reply with content and no tool request ends the run in that cycle:
\* it is the last reply received, the dict returned is the final-answer dict
\* with that content as answer, and no further chat call is made.
C4_ContentAnswers ==
    \A i \in 1..Len(responses) :
        IsContent(responses[i]) =>
            /\ i = Len(responses)
            /\ Returned
            /\ Result.agent_plan = "Completed"
            /\ Result.answer = responses[i].content
            /\ agent.chat_calls = i

C4_Witness ==
    /\ Returned
    /\ Len(responses) = 2
    /\ max_iterations = 3
    /\ IsBlank(responses[1])
    /\ IsContent(responses[2])
    /\ agent.chat_calls = 2

\* C5 as stated: an error raised by the chat backend in any cycle ends the
\* run with the failure dict (tool_calls = [], iterations = 0).
C5_AnyErrorFails ==
    \A i \in 1..Len(responses) :
        IsError(responses[i]) =>
            /\ Returned
            /\ Result.agent_plan = "Error during execution"
            /\ Result.tool_calls = <<>>
            /\ Result.iterations = 0

\* C5 as amended: an error raised by the chat backend in the last cycle
\* (cycle max_iterations) ends the run with the failure dict, whose answer
\* embeds the error description and whose tool_calls is [] and iterations 0;
\* an error raised in an earlier cycle is swallowed and the run goes on with
\* the next cycle; the exception never propagates, and the failure dict is
\* returned in no other case.
C5_LastCycleErrorFails ==
    /\ agent.pc # "raised"
    /\ \A i \in 1..Len(responses) :
           IsError(responses[i]) =>
               IF i = max_iterations
               THEN /\ Returned
                    /\ Result = [answer |-> ErrorAnswer(responses[i].error),
                                 tool_calls |-> <<>>,
                                 iterations |-> 0,
                                 agent_plan |-> "Error during execution"]
               ELSE i = Len(responses) =>
                        /\ agent.pc = "awaiting"
                        /\ agent.iterations = i + 1
    /\ (Returned /\ Result.agent_plan = "Error during execution") =>
           /\ Len(responses) = max_iterations
           /\ IsError(responses[Len(responses)])

C5_Witness ==
    /\ Returned
    /\ Result.agent_plan = "Error during execution"
    /\ Len(responses) = 3
    /\ IsToolRequest(responses[1])
    /\ IsError(responses[2])
    /\ agent.tool_calls # <<>>
    /\ agent.iterations = 3

\* C6: the exhaustion dict (agent_plan 'Reached max iterations ...') is
\* returned only after exactly max_iterations cycles, none of which produced
\* the final answer, and its iterations equals max_iterations.
C6_ExhaustedOnlyAtMax ==
    (Returned /\ Result.agent_plan = "Reached max iterations") =>
        /\ Result.iterations = max_iterations
        /\ Len(responses) = max_iterations
        /\ \A i \in 1..Len(responses) : ~IsContent(responses[i])

(***************************************************************************)
(* Properties of the retrieval gateway, checked under SpecSearch           *)
(***************************************************************************)
\* C10: VectorStoreService.search never raises to its caller, and returns an
\* empty list when the index is unavailable or the query embedding or the
\* index query raises; so a RetrievalPlugin tool never raises either and
\* then returns its 'nothing found' text.
C10_SearchNeverRaises ==
    /\ search_out.called =>
           /\ search_out.out.raised = NoError
           /\ search_out.out.failed # None => search_out.out.matches = <<>>
           /\ search_out.out.svc.vs_index = None => search_out.out.failed = "index"
    /\ tool_out.tool # None =>
           /\ tool_out.raised = NoError
           /\ tool_out.text # None
           /\ search_out.out.failed # None => tool_out.text = NotFoundText(tool_out.tool)

C10_Witness ==
    /\ tool_out.tool = "search_policy_documents"
    /\ search_out.out.failed = "query"
    /\ svc.vs_index = "Index"
    /\ svc.embedding_inner # None
    /\ tool_out.text = "No policies found for 'query'."


\* C7: whatever the chat, embedding and vector-store backends do, also while
\* the services initialise, a finished POST /query request has a success
\* response with an answer string; none ends in an error response.
C7_QueryAlwaysSucceeds ==
    \A r \in DOMAIN reqs :
        reqs[r].pc = "done" =>
            /\ reqs[r].response.status_code = 200
            /\ reqs[r].response.answer # None

\* The batch of the k-th chunk of a run with this batch size.
BatchOf(k, batch_size) == (k - 1) \div batch_size + 1

\* The number of batches of n chunks.
NumBatches(n, batch_size) == (n + batch_size - 1) \div batch_size

\* C8: whatever batches fail, the list generate_embeddings_batch returns holds
\* every input chunk exactly once and in input order; a chunk has an
\* 'embedding' if and only if its batch succeeded; and a failed batch does not
\* stop the later batches from being tried.
C8_BatchesPreserveChunks ==
    emb.pc = "returned" =>
        LET out == emb.chunks_with_embeddings
        IN /\ Len(out) = Len(emb.chunks)
           /\ Len(emb.batch_log) = NumBatches(Len(emb.chunks), emb.batch_size)
           /\ \A k \in 1..Len(out) :
                  /\ out[k].id = emb.chunks[k].id
                  /\ out[k].text = emb.chunks[k].text
                  /\ out[k].has_embedding_key <=>
                         emb.batch_log[BatchOf(k, emb.batch_size)] = "ok"
                  /\ out[k].has_embedding_key => out[k].embedding = EmbeddingVector(emb.dim)
           /\ \A j, k \in 1..Len(out) : out[j].id = out[k].id => j = k

\* A run of two batches whose first batch failed and whose second succeeded.
C8_Witness ==
    /\ emb.pc = "returned"
    /\ Len(emb.chunks) = 4
    /\ emb.batch_size = 2
    /\ emb.batch_log = <<"raised", "ok">>
    /\ ~emb.chunks_with_embeddings[2].has_embedding_key
    /\ emb.chunks_with_embeddings[3].has_embedding_key

\* C9: when the document store is connected and takes the insert, a finished
\* ingestion has written the text of every prepared chunk to it, however the
\* embedding went.
C9_AllTextStored ==
    (ing.pc = "done" /\ ing.mongo_connected /\ ing.insert # "raises") =>
        \A k \in 1..Len(ing.all_chunks) :
            \E m \in 1..Len(ing.mongo_store) :
                /\ ing.mongo_store[m].chunk_id = ing.all_chunks[k].id
                /\ ing.mongo_store[m].text = ing.all_chunks[k].text

\* The characters of a text that are neither whitespace nor punctuation.
Letters(t) == SelectSeq(t, LAMBDA c : ~IsSpace(c) /\ ~IsPunct(c))

\* The last n characters of a text of at least n characters.
Trailing(t, n) == SubSeq(t, Len(t) - n + 1, Len(t))

\* The chunks joined after the first chunk_overlap characters of every chunk
\* but the first are removed.
RECURSIVE Reconstructed(_, _)
Reconstructed(chunks, chunk_overlap) ==
    IF chunks = <<>> THEN <<>>
    ELSE IF Len(chunks) = 1 THEN chunks[1]
    ELSE Reconstructed(SubSeq(chunks, 1, Len(chunks) - 1), chunk_overlap) \o
         From(chunks[Len(chunks)], Min(chunk_overlap, Len(chunks[Len(chunks)])))

\* C11: with chunk_overlap < chunk_size, every chunk split_text returns is at
\* most chunk_size characters long, unless it is a single word of the input
\* that is longer than chunk_size.
C11_ChunksWithinSize ==
    (split.pc = "returned" /\ split.chunk_overlap < split.chunk_size) =>
        \A k \in 1..Len(split.chunks) :
            \/ Len(split.chunks[k]) <= split.chunk_size
            \/ \E w \in 1..Len(Words(split.text)) : Words(split.text)[w] = split.chunks[k]

\* C12: the chunks, joined after the first chunk_overlap characters of every
\* chunk but the first are removed, have the content of the input: here, at
\* least the same letters in the same order, whatever happens to separators,
\* whitespace and punctuation.
C12_ChunksCoverInput ==
    (split.pc = "returned" /\ split.chunk_overlap < split.chunk_size) =>
        Letters(Reconstructed(split.chunks, split.chunk_overlap)) = Letters(split.text)

\* C13: a chunk that was emitted because the next part or sentence would
\* overflow is followed by a chunk that starts with its trailing
\* min(chunk_overlap, length) characters.
C13_OverlapIsPrefix ==
    (split.pc = "returned" /\ split.chunk_overlap < split.chunk_size) =>
        \A k \in 1..(Len(split.chunks) - 1) :
            split.emitted[k].why = "overflow" =>
                StartsWith(split.chunks[k + 1],
                           Trailing(split.chunks[k],
                                    Min(split.chunk_overlap, Len(split.chunks[k]))))

\* C14: a text shorter than chunk_size that has a non-whitespace character
\* comes back as exactly one chunk, the text trimmed.
C14_ShortTextOneChunk ==
    (split.pc = "returned" /\ Len(split.text) < split.chunk_size
        /\ Strip(split.text) # <<>>) =>
        split.chunks = <<Strip(split.text)>>

\* C15: split_text returns no chunk for an empty or whitespace-only text and
\* at least one chunk for every other text, for every chunk_size and
\* chunk_overlap.
C15_ChunksIffContent ==
    split.pc = "returned" =>
        /\ Strip(split.text) = <<>> => split.chunks = <<>>
        /\ Strip(split.text) # <<>> => Len(split.chunks) >= 1

\* A text with content, split into several chunks under an overlap that is
\* not smaller than the chunk size.
C15_Witness ==
    /\ split.pc = "returned"
    /\ split.text = <<" ", "a", "a", "\n", "\n", "a">>
    /\ split.chunk_size = 2
    /\ split.chunk_overlap = 3
    /\ Len(split.chunks) >= 2
\* The ids of the chunks a run prepared.
ChunkIds(chunks) == [k \in 1..Len(chunks) |-> chunks[k].id]

DocumentIds(chunks) == [k \in 1..Len(chunks) |-> chunks[k].document_id]

\* C16: a second run of the ingestion over the same unchanged documents
\* prepares the same document ids and the same chunk ids as the run before it.
C16_RerunKeepsIds ==
    (/\ ing.run > 1
     /\ ing.pc = "done"
     /\ ing.outcome = "completed"
     /\ ing.previous.outcome = "completed") =>
        /\ DocumentIds(ing.all_chunks) = DocumentIds(ing.previous.all_chunks)
        /\ ChunkIds(ing.all_chunks) = ChunkIds(ing.previous.all_chunks)

\* C17: every vector the ingestion prepares for index.upsert has exactly
\* settings.pinecone_dimension values, whatever length the embedding backend
\* returned.
C17_VectorsHaveDimension ==
    ing.pc = "done" =>
        \A k \in 1..Len(ing.pinecone_vectors) :
            Len(ing.pinecone_vectors[k].values) = PineconeDimension

\* C18: POST /query only appends to the history of a session: in every step
\* every session is kept and its earlier history is a prefix of its later one,
\* so no message is removed, reordered or modified however the requests
\* interleave.
C18_HistoryOnlyAppended ==
    [][\A s \in DOMAIN conversations :
           /\ s \in DOMAIN conversations'
           /\ StartsWith(conversations'[s], conversations[s])]_vars

\* Two requests wrote to the session they share, the second after the answer
\* to the first was appended.
C18_Witness ==
    /\ "s1" \in DOMAIN conversations
    /\ Len(conversations["s1"]) >= 3
    /\ conversations["s1"][1] = Message("user", RequestQuery(1))
    /\ conversations["s1"][3] = Message("user", RequestQuery(2))

\* The history a request leaves in its session when no other request uses it.
OwnHistory(r) ==
    IF reqs[r].pc = "done" /\ reqs[r].response.status_code = 200
    THEN <<Message("user", RequestQuery(r)), Message("assistant", reqs[r].response.answer)>>
    ELSE <<Message("user", RequestQuery(r))>>

Started(r) == reqs[r].pc \in {"agent", "searching", "done"}

\* The messages the requests of a session put into its history.
OwnMessages(s) ==
    {Message("user", RequestQuery(r)) :
         r \in {q \in Requests : Started(q) /\ reqs[q].session_id = s}} \cup
    {Message("assistant", reqs[r].response.answer) :
         r \in {q \in Requests : /\ reqs[q].pc = "done"
                                 /\ reqs[q].response.status_code = 200
                                 /\ reqs[q].session_id = s}}

\* The system prompt built when the session's history was its first k messages.
PromptAfter(s, k) ==
    Message("system",
            AgentSystemPrompt(
                GetFormattedHistory([conversations EXCEPT ![s] = SubSeq(@, 1, k)],
                                    s, HistoryLimit)))

\* C19: requests that use different sessions do not touch each other's
\* session, however their steps interleave: a session holds only messages of
\* the requests that use it (exactly the messages of its one request when no
\* other request uses it), and the history in the system prompt of a
\* request's agent is taken from the request's own session.
C19_SessionsIndependent ==
    \A r \in Requests :
        Started(r) =>
            LET s == reqs[r].session_id
                alone == \A q \in Requests \ {r} : Started(q) => reqs[q].session_id # s
                prompted == reqs[r].agent.chat_history # <<>>
            IN /\ \A k \in 1..Len(conversations[s]) : conversations[s][k] \in OwnMessages(s)
               /\ alone => conversations[s] = OwnHistory(r)
               /\ (alone /\ prompted) => reqs[r].agent.chat_history[1] = PromptAfter(s, 1)
               /\ prompted => \E k \in 1..Len(conversations[s]) :
                                  reqs[r].agent.chat_history[1] = PromptAfter(s, k)

\* The second request was answered while the first, which arrived before
\* it and uses another session, is still being served.
C19_Witness ==
    /\ reqs[1].pc = "searching"
    /\ reqs[2].pc = "done"
    /\ reqs[2].response.status_code = 200
    /\ reqs[1].session_id = "s1"
    /\ reqs[2].session_id = NewSessionId(2)
    /\ conversations["s1"] = <<Message("user", RequestQuery(1))>>
    /\ Len(conversations[NewSessionId(2)]) = 2

\* C20: whatever the state of the backends, GET /health answers with HTTP
\* 200 and a body whose status is "ok" and which has a version.
C20_HealthAlwaysOk ==
    health.pc = "returned" =>
        /\ health.response.status_code = 200
        /\ health.response.status = "ok"
        /\ health.response.version # None

\* C21: the output of TextCleaner.clean is whitespace-normalized, whatever
\* the input and the steps asked for: it has no two spaces in a row, no more
\* than two newlines in a row, and no line that starts or ends with
\* whitespace.
C21_CleanIsNormalized ==
    clean.pc = "returned" =>
        LET out == clean.result
            lines == SplitLines(out)
        IN /\ \A k \in 1..(Len(out) - 1) : ~(out[k] = " " /\ out[k + 1] = " ")
           /\ \A k \in 1..(Len(out) - 2) :
                  ~(out[k] = "\n" /\ out[k + 1] = "\n" /\ out[k + 2] = "\n")
           /\ \A k \in 1..Len(lines) : Strip(lines[k]) = lines[k]

\* The newest turn of the conversation and the newest reply of the chat model.
NewestTurn == agent.chat_history[Len(agent.chat_history)]

NewestReply == responses[Len(responses)]

\* C22: when the chat model asked for a tool and agent_execute is at its
\* next chat call, the newest turn of the conversation is the result of the
\* tool asked for (a turn that is not the model's own), and the newest record
\* of the trace is the one record of this request.
C22_ToolDispatched ==
    (/\ agent.pc = "awaiting"
     /\ responses # <<>>
     /\ IsToolRequest(NewestReply)) =>
        /\ NewestTurn.role = "tool"
        /\ agent.tool_calls # <<>>
        /\ agent.tool_calls[Len(agent.tool_calls)] =
               ToolCallRecord(NewestReply.function_call, Len(responses))
        /\ Cardinality({k \in 1..Len(agent.tool_calls) :
                            agent.tool_calls[k].iteration = Len(responses)}) = 1

\* C23: the tools the chat model asks for during agent_execute, and the
\* tool_name of every record of the trace, are among the four retrieval tools
\* the system prompt lists.
C23_ClosedToolSet ==
    /\ \A i \in 1..Len(responses) :
           IsToolRequest(responses[i]) => responses[i].function_call.name \in PromptTools
    /\ \A k \in 1..Len(agent.tool_calls) : agent.tool_calls[k].tool_name \in PromptTools

\* The replies that brought content written by the model into the
\* conversation.
ModelAuthored ==
    {i \in 1..Len(responses) : responses[i].kind = "message" /\ Truthy(responses[i].content)}

\* C24: the answer of the exhaustion dict is the content of the most recent
\* turn the model wrote, and it is the fixed fallback text exactly when the
\* conversation holds no content written by the model.
C24_ExhaustionAnswer ==
    (Returned /\ Result.agent_plan = "Reached max iterations") =>
        /\ (Result.answer = ThinkingLimitAnswer) <=> (ModelAuthored = {})
        /\ ModelAuthored # {} =>
               \E i \in ModelAuthored :
                   /\ \A j \in ModelAuthored : j <= i
                   /\ Result.answer = responses[i].content

\* p in t, for Python strings.
Contains(t, p) == \E i \in 0..(Len(t) - Len(p)) : SubSeq(t, i + 1, i + Len(p)) = p

\* C25: a part of the input between separators that is longer than
\* chunk_size, and has a word boundary to be split at, is in no chunk as a
\* whole, whatever was accumulated before it.
C25_LargePartIsSplit ==
    split.pc = "returned" =>
        LET parts == SplitSeparator(split.text)
        IN \A i \in 1..Len(parts) :
               (/\ Len(Strip(parts[i])) > split.chunk_size
                /\ Len(Words(parts[i])) >= 2) =>
                   \A k \in 1..Len(split.chunks) :
                       ~Contains(split.chunks[k], Strip(parts[i]))

\* The words of the chunks from the k-th on, each chunk without the words
\* it carries over from the chunk before it.
RECURSIVE NewWords(_, _, _)
NewWords(chunks, carry, k) ==
    IF k > Len(chunks) THEN <<>>
    ELSE From(Words(chunks[k]), IF k = 1 THEN 0 ELSE carry[k]) \o NewWords(chunks, carry, k + 1)

\* The text is one sentence that split_text hands to _split_by_words: it has
\* no separator and no sentence end, and is longer than chunk_size.
SplitByWordsOnly ==
    /\ split.pc = "returned"
    /\ Len(SplitSeparator(split.text)) = 1
    /\ Len(SplitSentences(Strip(split.text))) = 1
    /\ Len(Strip(split.text)) > split.chunk_size

\* C26: in word-level splitting every chunk after the first starts with at
\* most floor(chunk_overlap / 10) trailing words of the chunk before it,
\* followed by the new words; with floor(chunk_overlap / 10) = 0 no word is
\* carried over.
C26_WordOverlapBounded ==
    SplitByWordsOnly =>
        \E carry \in [2..Len(split.chunks) -> 0..(split.chunk_overlap \div 10)] :
            /\ \A k \in 2..Len(split.chunks) :
                   /\ carry[k] <= Len(Words(split.chunks[k - 1]))
                   /\ carry[k] <= Len(Words(split.chunks[k]))
                   /\ SubSeq(Words(split.chunks[k]), 1, carry[k]) =
                          From(Words(split.chunks[k - 1]),
                               Len(Words(split.chunks[k - 1])) - carry[k])
            /\ NewWords(split.chunks, carry, 1) = Words(split.text)

(***************************************************************************)
(* Properties of the status records, checked under SpecStatus              *)
(***************************************************************************)
\* The request that was given the query id.
RequestOf(query_id) == CHOOSE r \in Requests : QueryId(r) = query_id

C28_DeleteKeepsOutcome ==
    \A r \in Requests :
        (reqs[r].pc = "done" /\ QueryId(r) \notin DOMAIN query_status_store) =>
            \/ /\ reqs[r].response.status_code = 200
               /\ reqs[r].response.answer = reqs[r].agent.result.answer
               /\ \E k \in 1..Len(conversations[reqs[r].session_id]) :
                      conversations[reqs[r].session_id][k] =
                          Message("assistant", reqs[r].response.answer)
            \/ /\ reqs[r].response.status_code = 500
               /\ reqs[r].response.detail # None

\* The number of messages of a role in a history.
CountRole(messages, role) ==
    Cardinality({k \in 1..Len(messages) : messages[k].role = role})

\* C29: every request that appended its user message has appended exactly
\* one assistant message by the time it ends, with a response or an error:
\* in every session the user messages without an assistant message are
\* those of the requests still in progress.
C29_EveryUserMessageAnswered ==
    \A s \in DOMAIN conversations :
        CountRole(conversations[s], "user") - CountRole(conversations[s], "assistant") =
            Cardinality({r \in Requests : /\ reqs[r].pc \in {"agent", "searching"}
                                          /\ reqs[r].session_id = s})

\* C30: get_conversation with limit n >= 0 returns the last min(n, length)
\* messages of the session in insertion order and the whole history without
\* a limit; get_context_for_llm with max_messages n returns at most n
\* messages; a session nobody wrote to yields the empty list.
C30_LimitedReads ==
    [][memory_calls' # memory_calls =>
          LET c == memory_calls'
              history == IF c.session_id \in DOMAIN conversations
                         THEN conversations[c.session_id] ELSE <<>>
              kept == Min(c.limit, Len(history))
          IN /\ (c.op = "get_conversation" /\ c.limited) =>
                    c.result = SubSeq(history, Len(history) - kept + 1, Len(history))
             /\ (c.op = "get_conversation" /\ ~c.limited) => c.result = history
             /\ (c.op = "get_context_for_llm" /\ c.limited) => Len(c.result) <= c.limit
             /\ c.session_id \notin DOMAIN conversations => c.result = <<>>]_vars

====
